---- MODULE Spec2Model ----
(***************************************************************************)
(* Model of the ATS scoring backend (ml-backend): the feature extractor,   *)
(* the keyword matcher, the MLService (load_model / predict_ats_score with *)
(* its rule-based fallback, breakdown and suggestions) and the synthetic   *)
(* data generator's seeding.                                               *)
(*                                                                         *)
(* Numbers.  Python floats are modelled exactly as rationals               *)
(* [num |-> n, den |-> d] with d > 0; a value rounded with round(x, 1) is  *)
(* kept as an integer number of tenths.  Counts are integers.              *)
(***************************************************************************)
EXTENDS Integers, Sequences, FiniteSets, TLC

VARIABLES
    model,          \* MLService.model: "None" or the loaded predictor
    scaler,         \* MLService.scaler: "None" or the loaded scaler
    feature_names,  \* MLService.feature_names
    model_loaded,   \* MLService.model_loaded
    model_version,  \* MLService.model_version
    vocabulary,     \* FeatureExtractor's class-level pattern vocabularies
    rng,            \* state of the random module (generate_synthetic_data_v2)
    op,             \* the operation that ran last ("none" before the first)
    args,           \* the arguments of that operation
    ret,            \* the value it returned
    first,          \* the first extraction / fallback results seen, per input
    calls           \* the calls in flight: request, position and locals of each

vars == <<model, scaler, feature_names, model_loaded, model_version,
          vocabulary, rng, op, args, ret, first, calls>>

service == <<model, scaler, feature_names, model_loaded, model_version>>

-----------------------------------------------------------------------------
(* Exact arithmetic on the float-valued quantities.                        *)

Rat(n) == [num |-> n, den |-> 1]

RLe(a, b) == a.num * b.den <= b.num * a.den

RLt(a, b) == a.num * b.den < b.num * a.den

RMin(a, b) == IF RLe(a, b) THEN a ELSE b

RMax(a, b) == IF RLe(a, b) THEN b ELSE a

RAdd(a, b) == [num |-> a.num * b.den + b.num * a.den, den |-> a.den * b.den]

\* a * (p / q), q > 0
RMul(a, p, q) == [num |-> a.num * p, den |-> a.den * q]

\* round(x, 1), as a number of tenths: the nearest tenth, an exact tie going
\* to the even digit as Python's round does on an exactly representable value.
Round1(a) ==
    LET n == 10 * a.num
        f == n \div a.den
        r == n - f * a.den
    IN  IF 2 * r < a.den THEN f
        ELSE IF 2 * r > a.den THEN f + 1
        ELSE IF f % 2 = 0 THEN f ELSE f + 1

IMin(a, b) == IF a <= b THEN a ELSE b

IMax(a, b) == IF a >= b THEN a ELSE b

-----------------------------------------------------------------------------
(* Feature dictionaries: functions from a subset of the field names.       *)

\* features.get(name, default)
Get(features, name, default) ==
    IF name \in DOMAIN features THEN features[name] ELSE default

feature_order_swapped ==
    << "total_words", "total_sentences", "total_characters",
       "avg_word_length", "avg_sentence_length", "total_sections",
       "has_summary", "has_experience", "has_education", "has_skills",
       "has_projects", "has_certifications", "has_email", "has_phone",
       "has_linkedin", "has_github", "action_verb_count",
       "quantifiable_metrics", "bullet_point_count", "technical_terms_count",
       "number_of_jobs", "years_of_experience", "has_job_titles",
       "degree_level", "has_gpa", "total_skills_mentioned",
       "programming_languages", "readability_score", "appropriate_length",
       "consistent_formatting", "keyword_match_score" >>

\* MLService._features_to_array: the order the predictor reads the fields in
feature_order ==
    << "total_words", "total_sentences", "total_characters",
       "avg_word_length", "avg_sentence_length", "total_sections",
       "has_summary", "has_experience", "has_education", "has_skills",
       "has_projects", "has_certifications", "has_email", "has_phone",
       "has_linkedin", "has_github", "action_verb_count",
       "quantifiable_metrics", "bullet_point_count", "technical_terms_count",
       "years_of_experience", "number_of_jobs", "has_job_titles",
       "degree_level", "has_gpa", "total_skills_mentioned",
       "programming_languages", "readability_score", "appropriate_length",
       "consistent_formatting", "keyword_match_score" >>

-----------------------------------------------------------------------------
(* MLService._generate_breakdown                                           *)

_generate_breakdown(features, overall_score) ==
    LET keyword_score ==
            RMin(Rat(100), RMul(Get(features, "keyword_match_score", Rat(50)), 12, 10))
        experience_score ==
            IMin(100, Get(features, "action_verb_count", 0) * 4
                    + Get(features, "quantifiable_metrics", 0) * 5
                    + IMin(Get(features, "years_of_experience", 0) * 10, 50))
        formatting_score ==
            IMin(100, (IF Get(features, "appropriate_length", FALSE) THEN 50 ELSE 20)
                    + (IF Get(features, "consistent_formatting", FALSE) THEN 30 ELSE 10)
                    + (IF Get(features, "bullet_point_count", 0) > 5 THEN 20 ELSE 10))
        skills_score ==
            IMin(100, Get(features, "total_skills_mentioned", 0) * 7
                    + Get(features, "programming_languages", 0) * 10)
        structure_score ==
            IMin(100, Get(features, "total_sections", 0) * 15
                    + (IF Get(features, "has_summary", FALSE) THEN 10 ELSE 0)
                    + (IF Get(features, "has_experience", FALSE) THEN 20 ELSE 0)
                    + (IF Get(features, "has_education", FALSE) THEN 15 ELSE 0)
                    + (IF Get(features, "has_skills", FALSE) THEN 15 ELSE 0))
    IN  [keywords   |-> Round1(keyword_score),
         experience |-> Round1(Rat(experience_score)),
         formatting |-> Round1(Rat(formatting_score)),
         skills     |-> Round1(Rat(skills_score)),
         structure  |-> Round1(Rat(structure_score))]

-----------------------------------------------------------------------------
(* MLService._generate_suggestions                                         *)

Suggestion(category, priority, suggestion) ==
    [category |-> category, priority |-> priority, suggestion |-> suggestion]

\* priority_order = {'high': 0, 'medium': 1, 'low': 2}
priority_order(p) ==
    CASE p = "high" -> 0
      [] p = "medium" -> 1
      [] p = "low" -> 2

\* the variant that puts an element before the elements of equal key
RECURSIVE InsertBeforeEqualKeys(_, _)
InsertBeforeEqualKeys(sorted, x) ==
    IF sorted = <<>> THEN <<x>>
    ELSE LET last == sorted[Len(sorted)]
         IN  IF priority_order(last.priority) < priority_order(x.priority)
             THEN Append(sorted, x)
             ELSE Append(InsertBeforeEqualKeys(SubSeq(sorted, 1, Len(sorted) - 1), x),
                         last)

\* list.sort(key=...): a stable sort, here by insertion from the left
RECURSIVE InsertByKey(_, _)
InsertByKey(sorted, x) ==
    IF sorted = <<>> THEN <<x>>
    ELSE LET last == sorted[Len(sorted)]
         IN  IF priority_order(last.priority) <= priority_order(x.priority)
             THEN Append(sorted, x)
             ELSE Append(InsertByKey(SubSeq(sorted, 1, Len(sorted) - 1), x), last)

RECURSIVE SortByPriorityUpTo(_, _)
SortByPriorityUpTo(s, n) ==
    IF n = 0 THEN <<>> ELSE InsertByKey(SortByPriorityUpTo(s, n - 1), s[n])

NoSort(s) == s

SortByPriority(s) == SortByPriorityUpTo(s, Len(s))

\* suggestions[:8]
Top8(s) == SubSeq(s, 1, IMin(8, Len(s)))

\* ', '.join(names)
RECURSIVE JoinComma(_)
JoinComma(names) ==
    IF names = <<>> THEN ""
    ELSE IF Len(names) = 1 THEN names[1]
    ELSE names[1] \o ", " \o JoinComma(Tail(names))

\* the rules, in evaluation order; each contributes zero or one suggestion
FiredSuggestions(features) ==
    LET keywords ==
            IF RLt(Get(features, "keyword_match_score", Rat(50)), Rat(60))
            THEN << Suggestion("keywords", "high",
                     "Add more relevant keywords from the job description to your resume") >>
            ELSE <<>>
        verbs ==
            IF Get(features, "action_verb_count", 0) < 10
            THEN << Suggestion("experience", "high",
                     "Use more action verbs (achieved, managed, led, developed, etc.) to describe your accomplishments") >>
            ELSE <<>>
        metrics ==
            IF Get(features, "quantifiable_metrics", 0) < 5
            THEN << Suggestion("experience", "high",
                     "Add quantifiable achievements (increased by 30%, managed $2M budget, led team of 10, etc.)") >>
            ELSE <<>>
        word_count == Get(features, "total_words", 0)
        length ==
            IF ~Get(features, "appropriate_length", FALSE)
            THEN IF word_count < 300
                 THEN << Suggestion("formatting", "medium",
                          "Your resume is too brief. Add more details about your experience and achievements") >>
                 ELSE IF word_count > 1000
                 THEN << Suggestion("formatting", "medium",
                          "Your resume is too long. Focus on the most relevant and recent experience") >>
                 ELSE <<>>
            ELSE <<>>
        missing ==
            (IF ~Get(features, "has_summary", FALSE) THEN <<"professional summary">> ELSE <<>>)
            \o (IF ~Get(features, "has_skills", FALSE) THEN <<"skills section">> ELSE <<>>)
        sections ==
            IF Get(features, "total_sections", 0) < 4 /\ missing # <<>>
            THEN << Suggestion("structure", "medium",
                     "Add missing sections: " \o JoinComma(missing)) >>
            ELSE <<>>
        skills ==
            IF Get(features, "total_skills_mentioned", 0) < 8
            THEN << Suggestion("skills", "medium",
                     "List more relevant technical and soft skills (aim for 10-15 skills)") >>
            ELSE <<>>
        contact ==
            IF ~Get(features, "has_email", FALSE) \/ ~Get(features, "has_phone", FALSE)
            THEN << Suggestion("structure", "high",
                     "Ensure your contact information (email and phone) is clearly visible") >>
            ELSE <<>>
        bullets ==
            IF Get(features, "bullet_point_count", 0) < 5
            THEN << Suggestion("formatting", "low",
                     "Use bullet points to make your experience more readable") >>
            ELSE <<>>
    IN  keywords \o verbs \o metrics \o length \o sections \o skills \o contact \o bullets

_generate_suggestions(features, score) ==
    Top8(SortByPriority(FiredSuggestions(features)))

-----------------------------------------------------------------------------
(* MLService._fallback_prediction                                          *)

NoClamp(lo, hi, x) == x

\* max(lo, min(hi, x))
Clamp(lo, hi, x) == RMax(Rat(lo), RMin(Rat(hi), x))

\* the weighted sum before the final clamp
FallbackRawScore(features) ==
    LET exp_score ==
            IMin(100, Get(features, "action_verb_count", 0) * 3
                    + Get(features, "quantifiable_metrics", 0) * 4
                    + IMin(Get(features, "years_of_experience", 0) * 8, 40))
        struct_score ==
            Get(features, "total_sections", 0) * 12
            + (IF Get(features, "has_summary", FALSE) THEN 10 ELSE 0)
            + (IF Get(features, "has_experience", FALSE) THEN 20 ELSE 0)
        skills_score == IMin(100, Get(features, "total_skills_mentioned", 0) * 8)
        format_score ==
            (IF Get(features, "appropriate_length", FALSE) THEN 50 ELSE 20)
            + (IF Get(features, "consistent_formatting", FALSE) THEN 30 ELSE 10)
            + (IF Get(features, "bullet_point_count", 0) > 5 THEN 20 ELSE 10)
    IN  RAdd(RMul(Get(features, "keyword_match_score", Rat(50)), 3, 10),
             [num |-> exp_score * 25 + IMin(100, struct_score) * 20
                      + skills_score * 15 + IMin(100, format_score) * 10,
              den |-> 100])

_fallback_prediction(features) ==
    LET score == Clamp(0, 100, FallbackRawScore(features))
    IN  [overall_score |-> Round1(score),
         confidence    |-> [num |-> 7, den |-> 10],
         breakdown     |-> _generate_breakdown(features, score),
         suggestions   |-> _generate_suggestions(features, score),
         model_version |-> "fallback-1.0.0"]

-----------------------------------------------------------------------------
(* The pattern vocabularies of FeatureExtractor, as the class defines them. *)

ACTION_VERBS ==
    {"accelerated", "accomplished", "achieved", "advocated", "analyzed",
     "architected", "assessed", "attained", "automated", "awarded", "built",
     "collaborated", "communicated", "configured", "consolidated",
     "consulted", "coordinated", "created", "debugged", "decreased",
     "delivered", "deployed", "designed", "developed", "diagnosed",
     "directed", "discovered", "earned", "engineered", "enhanced",
     "established", "evaluated", "examined", "exceeded", "executed",
     "expanded", "formulated", "founded", "generated", "headed", "honored",
     "identified", "implemented", "improved", "increased", "influenced",
     "initiated", "integrated", "introduced", "invented", "investigated",
     "launched", "led", "liaised", "managed", "maximized", "measured",
     "mentored", "migrated", "minimized", "modernized", "negotiated",
     "optimized", "orchestrated", "originated", "oversaw", "partnered",
     "persuaded", "pioneered", "presented", "programmed", "promoted",
     "quantified", "recognized", "reduced", "refined", "researched",
     "restructured", "revitalized", "revolutionized", "scaled",
     "spearheaded", "streamlined", "supervised", "surpassed", "tested",
     "trained", "transformed", "upgraded", "won"}

SECTION_KEYWORDS ==
       "summary" :> <<"summary", "profile", "objective", "about", "overview",
            "introduction">>
    @@ "experience" :> <<"experience", "employment", "work history",
            "professional experience", "career history",
            "relevant experience">>
    @@ "education" :> <<"education", "academic", "qualification", "degree", "university",
            "college", "school">>
    @@ "skills" :> <<"skills", "technical skills", "competencies", "expertise",
            "proficiencies", "technologies", "tools">>
    @@ "projects" :> <<"projects", "portfolio", "key projects", "personal projects">>
    @@ "certifications" :> <<"certifications", "certificates", "licenses", "credentials",
            "professional development">>

TECH_SKILLS ==
    {".net", "agile", "ai", "airflow", "amazon web services", "angular",
     "ansible", "apache", "api", "asp.net", "aws", "azure", "bdd",
     "bitbucket", "c#", "c++", "cassandra", "chef", "ci/cd", "cicd",
     "circleci", "clojure", "cloudflare", "computer vision", "confluence",
     "dart", "data engineering", "data pipeline", "data science",
     "deep learning", "devops", "digitalocean", "django", "docker", "dotnet",
     "dynamodb", "elasticsearch", "elixir", "etl", "express", "f#",
     "fastapi", "figma", "flask", "gatsby", "gcp", "git", "github",
     "github actions", "gitlab", "gitlab ci", "go", "golang", "google cloud",
     "graphql", "hadoop", "haskell", "heroku", "huggingface", "java",
     "javascript", "jenkins", "jira", "k8s", "kafka", "kanban", "keras",
     "kotlin", "kubernetes", "laravel", "lua", "machine learning", "mariadb",
     "matlab", "microservices", "mlflow", "mongodb", "mysql", "neo4j",
     "netlify", "next.js", "nextjs", "nginx", "nlp", "node.js", "nodejs",
     "numpy", "nuxt", "objective-c", "oracle", "pandas", "perl", "php",
     "postgres", "postgresql", "postman", "puppet", "python", "pytorch", "r",
     "rails", "react", "redis", "rest", "restful", "ruby", "rust", "scala",
     "scikit-learn", "scrum", "serverless", "sketch", "sklearn", "slack",
     "spark", "spring", "sql", "sqlite", "sre", "svelte", "swagger", "swift",
     "tdd", "tensorflow", "terraform", "typescript", "vagrant", "vercel",
     "vue"}

JOB_TITLES ==
    {"administrator", "analyst", "architect", "associate", "ceo", "cfo",
     "chief", "cio", "co-founder", "consultant", "coo", "coordinator", "cto",
     "developer", "director", "engineer", "executive", "founder", "head",
     "intern", "junior", "lead", "manager", "officer", "principal",
     "programmer", "scientist", "senior", "specialist", "staff",
     "vice president", "vp"}

InitialVocabulary ==
    [ACTION_VERBS |-> ACTION_VERBS, SECTION_KEYWORDS |-> SECTION_KEYWORDS,
     TECH_SKILLS |-> TECH_SKILLS, JOB_TITLES |-> JOB_TITLES]

-----------------------------------------------------------------------------
(* The lines texts are made of.  Each entry lists what the extractor's     *)
(* regular expressions find in the line: chars = len(line); words = the    *)
(* \w+ words with their count and their stem when they end in ed / ing;    *)
(* alpha, syll = alphabetic words and syllables; ends, punct = the line    *)
(* ends a sentence, with that many punctuation characters; sub = the       *)
(* vocabulary terms that are substrings; kw = section keywords found       *)
(* between word boundaries; tech = the [\w.#+]+ tokens, each with its      *)
(* dots removed; ypat = the numbers captured by the three years patterns;  *)
(* dates = the year ranges; at = "at Company" matches; degree = the        *)
(* (level, pattern) pairs of the degree ladder that match; skillhdr,       *)
(* commas_after, items_after, commas, items, letter = the skills excerpt;  *)
(* langs, barec = programming languages; date1, date2, glyph, disc, dash,  *)
(* star = the formatting counts; res3, jd4 = words of 3+ / 4+ letters.     *)
(* "lorem*n" stands for the word lorem written n times.                    *)

NoMatch ==
    [chars |-> 0, words |-> <<>>, alpha |-> 0, syll |-> 0, ends |-> FALSE,
     punct |-> 0, sub |-> {}, kw |-> {}, email |-> FALSE, phone |-> FALSE,
     metrics |-> 0, bullets |-> 0, tech |-> {}, ypat |-> << <<>>, <<>>,
     <<>> >>, dates |-> <<>>, at |-> 0, titlepat |-> FALSE, degree |-> {},
     gpa |-> FALSE, skillhdr |-> FALSE, commas_after |-> 0,
     items_after |-> 0, commas |-> 0, items |-> 0, letter |-> FALSE,
     langs |-> {}, barec |-> FALSE, date1 |-> 0, date2 |-> 0, glyph |-> 0,
     disc |-> 0, dash |-> 0, star |-> 0, res3 |-> {}, jd4 |-> {}]

W(w, n, ed, ing) == [w |-> w, n |-> n, ed |-> ed, ing |-> ing]

Lexicon ==
       "summary" :> [NoMatch EXCEPT
          !.chars = 7, !.words = <<W("summary", 1, "", "")>>, !.alpha = 1,
          !.syll = 3, !.sub = {"r"}, !.kw = {"summary"},
          !.res3 = {"summary"}, !.jd4 = {"summary"}, !.tech = {<<"summary",
          "summary">>}, !.letter = TRUE]
    @@ "professional experience:" :> [NoMatch EXCEPT
          !.chars = 24, !.words = <<W("professional", 1, "", ""),
          W("experience", 1, "", "")>>, !.alpha = 2, !.syll = 8,
          !.sub = {"r"}, !.kw = {"experience", "professional experience"},
          !.res3 = {"experience", "professional"}, !.jd4 = {"experience",
          "professional"}, !.tech = {<<"experience", "experience">>,
          <<"professional", "professional">>}, !.letter = TRUE]
    @@ "education" :> [NoMatch EXCEPT
          !.chars = 9, !.words = <<W("education", 1, "", "")>>, !.alpha = 1,
          !.syll = 4, !.kw = {"education"}, !.res3 = {"education"},
          !.jd4 = {"education"}, !.tech = {<<"education", "education">>},
          !.letter = TRUE]
    @@ "skills: python, docker, sql" :> [NoMatch EXCEPT
          !.chars = 27, !.words = <<W("skills", 1, "", ""), W("python", 1,
          "", ""), W("docker", 1, "", ""), W("sql", 1, "", "")>>,
          !.alpha = 4, !.syll = 6, !.sub = {"docker", "python", "r", "sql"},
          !.kw = {"skills"}, !.langs = {"python"}, !.res3 = {"docker",
          "python", "skills", "sql"}, !.jd4 = {"docker", "python", "skills"},
          !.tech = {<<"docker", "docker">>, <<"python", "python">>,
          <<"skills", "skills">>, <<"sql", "sql">>}, !.skillhdr = TRUE,
          !.letter = TRUE, !.commas_after = 2, !.commas = 2]
    @@ "projects" :> [NoMatch EXCEPT
          !.chars = 8, !.words = <<W("projects", 1, "", "")>>, !.alpha = 1,
          !.syll = 2, !.sub = {"r"}, !.kw = {"projects"},
          !.res3 = {"projects"}, !.jd4 = {"projects"},
          !.tech = {<<"projects", "projects">>}, !.letter = TRUE]
    @@ "certifications" :> [NoMatch EXCEPT
          !.chars = 14, !.words = <<W("certifications", 1, "", "")>>,
          !.alpha = 1, !.syll = 5, !.sub = {"r"}, !.kw = {"certifications"},
          !.res3 = {"certifications"}, !.jd4 = {"certifications"},
          !.tech = {<<"certifications", "certifications">>}, !.letter = TRUE]
    @@ "jane@example.com" :> [NoMatch EXCEPT
          !.chars = 16, !.words = <<W("jane", 1, "", ""), W("example", 1, "",
          ""), W("com", 1, "", "")>>, !.alpha = 3, !.syll = 6,
          !.res3 = {"com", "example", "jane"}, !.jd4 = {"example", "jane"},
          !.tech = {<<"example.com", "examplecom">>, <<"jane", "jane">>},
          !.email = TRUE, !.letter = TRUE]
    @@ "(555) 123-4567" :> [NoMatch EXCEPT
          !.chars = 14, !.words = <<W("555", 1, "", ""), W("123", 1, "", ""),
          W("4567", 1, "", "")>>, !.tech = {<<"123", "123">>, <<"4567",
          "4567">>, <<"555", "555">>}, !.phone = TRUE, !.items = 1,
          !.dash = 1]
    @@ "linkedin.com/in/jane" :> [NoMatch EXCEPT
          !.chars = 20, !.words = <<W("linkedin", 1, "", ""), W("com", 1, "",
          ""), W("in", 1, "", ""), W("jane", 1, "", "")>>, !.alpha = 4,
          !.syll = 7, !.sub = {"/in/", "linkedin", "linkedin.com"},
          !.res3 = {"com", "jane", "linkedin"}, !.jd4 = {"jane", "linkedin"},
          !.tech = {<<"in", "in">>, <<"jane", "jane">>, <<"linkedin.com",
          "linkedincom">>}, !.letter = TRUE]
    @@ "github.com/jane" :> [NoMatch EXCEPT
          !.chars = 15, !.words = <<W("github", 1, "", ""), W("com", 1, "",
          ""), W("jane", 1, "", "")>>, !.alpha = 3, !.syll = 5,
          !.sub = {"git", "github", "github.com"}, !.res3 = {"com", "github",
          "jane"}, !.jd4 = {"github", "jane"}, !.tech = {<<"github.com",
          "githubcom">>, <<"jane", "jane">>}, !.letter = TRUE]
    @@ "managed team of 10 engineers" :> [NoMatch EXCEPT
          !.chars = 28, !.words = <<W("managed", 1, "manag", ""), W("team",
          1, "", ""), W("of", 1, "", ""), W("10", 1, "", ""), W("engineers",
          1, "", "")>>, !.alpha = 4, !.syll = 8, !.sub = {"engineer", "r"},
          !.res3 = {"engineers", "managed", "team"}, !.jd4 = {"engineers",
          "managed", "team"}, !.tech = {<<"10", "10">>, <<"engineers",
          "engineers">>, <<"managed", "managed">>, <<"of", "of">>, <<"team",
          "team">>}, !.letter = TRUE, !.metrics = 1]
    @@ "increased revenue by 30%." :> [NoMatch EXCEPT
          !.chars = 25, !.words = <<W("increased", 1, "increas", ""),
          W("revenue", 1, "", ""), W("by", 1, "", ""), W("30", 1, "", "")>>,
          !.alpha = 3, !.syll = 7, !.ends = TRUE, !.punct = 1, !.sub = {"r"},
          !.res3 = {"increased", "revenue"}, !.jd4 = {"increased",
          "revenue"}, !.tech = {<<"30", "30">>, <<"by", "by">>,
          <<"increased", "increased">>, <<"revenue", "revenue">>},
          !.letter = TRUE, !.metrics = 2]
    @@ "* built rest apis in java" :> [NoMatch EXCEPT
          !.chars = 25, !.words = <<W("built", 1, "", ""), W("rest", 1, "",
          ""), W("apis", 1, "", ""), W("in", 1, "", ""), W("java", 1, "",
          "")>>, !.alpha = 5, !.syll = 7, !.sub = {"api", "java", "r",
          "rest"}, !.langs = {"java"}, !.res3 = {"apis", "built", "java",
          "rest"}, !.jd4 = {"apis", "built", "java", "rest"},
          !.tech = {<<"apis", "apis">>, <<"built", "built">>, <<"in", "in">>,
          <<"java", "java">>, <<"rest", "rest">>}, !.bullets = 1, !.star = 1]
    @@ "- led migration to kubernetes" :> [NoMatch EXCEPT
          !.chars = 29, !.words = <<W("led", 1, "l", ""), W("migration", 1,
          "", ""), W("to", 1, "", ""), W("kubernetes", 1, "", "")>>,
          !.alpha = 4, !.syll = 9, !.sub = {"kubernetes", "r"},
          !.res3 = {"kubernetes", "led", "migration"}, !.jd4 = {"kubernetes",
          "migration"}, !.tech = {<<"kubernetes", "kubernetes">>, <<"led",
          "led">>, <<"migration", "migration">>, <<"to", "to">>},
          !.bullets = 1, !.items = 1, !.dash = 1]
    @@ "5 years of experience" :> [NoMatch EXCEPT
          !.chars = 21, !.words = <<W("5", 1, "", ""), W("years", 1, "", ""),
          W("of", 1, "", ""), W("experience", 1, "", "")>>, !.alpha = 3,
          !.syll = 6, !.sub = {"r"}, !.kw = {"experience"},
          !.res3 = {"experience", "years"}, !.jd4 = {"experience", "years"},
          !.tech = {<<"5", "5">>, <<"experience", "experience">>, <<"of",
          "of">>, <<"years", "years">>}, !.metrics = 1, !.ypat = << <<5>>,
          <<>>, <<>> >>]
    @@ "5-7 years" :> [NoMatch EXCEPT
          !.chars = 9, !.words = <<W("5", 1, "", ""), W("7", 1, "", ""),
          W("years", 1, "", "")>>, !.alpha = 1, !.syll = 1, !.sub = {"r"},
          !.res3 = {"years"}, !.jd4 = {"years"}, !.tech = {<<"5", "5">>,
          <<"7", "7">>, <<"years", "years">>}, !.metrics = 1, !.items = 1,
          !.dash = 1, !.ypat = << <<7>>, <<7>>, <<>> >>]
    @@ "over 10 years" :> [NoMatch EXCEPT
          !.chars = 13, !.words = <<W("over", 1, "", ""), W("10", 1, "", ""),
          W("years", 1, "", "")>>, !.alpha = 2, !.syll = 3, !.sub = {"r"},
          !.res3 = {"over", "years"}, !.jd4 = {"over", "years"},
          !.tech = {<<"10", "10">>, <<"over", "over">>, <<"years",
          "years">>}, !.letter = TRUE, !.metrics = 1, !.ypat = << <<10>>,
          <<>>, <<10>> >>]
    @@ "2015-2020" :> [NoMatch EXCEPT
          !.chars = 9, !.words = <<W("2015", 1, "", ""), W("2020", 1, "",
          "")>>, !.tech = {<<"2015", "2015">>, <<"2020", "2020">>},
          !.items = 1, !.date1 = 1, !.dash = 1, !.dates = <<[start |-> 2015,
          present |-> FALSE, end |-> 2020]>>]
    @@ "2020 - 2015" :> [NoMatch EXCEPT
          !.chars = 11, !.words = <<W("2020", 1, "", ""), W("2015", 1, "",
          "")>>, !.tech = {<<"2015", "2015">>, <<"2020", "2020">>},
          !.items = 1, !.date1 = 1, !.dash = 1, !.dates = <<[start |-> 2020,
          present |-> FALSE, end |-> 2015]>>]
    @@ "2019-present" :> [NoMatch EXCEPT
          !.chars = 12, !.words = <<W("2019", 1, "", ""), W("present", 1, "",
          "")>>, !.alpha = 1, !.syll = 2, !.sub = {"r"},
          !.res3 = {"present"}, !.jd4 = {"present"}, !.tech = {<<"2019",
          "2019">>, <<"present", "present">>}, !.items = 1, !.date1 = 1,
          !.dash = 1, !.dates = <<[start |-> 2019, present |-> TRUE,
          end |-> 0]>>]
    @@ "senior software engineer at google" :> [NoMatch EXCEPT
          !.chars = 34, !.words = <<W("senior", 1, "", ""), W("software", 1,
          "", ""), W("engineer", 1, "", ""), W("at", 1, "", ""), W("google",
          1, "", "")>>, !.alpha = 5, !.syll = 11, !.sub = {"engineer", "go",
          "r", "senior"}, !.res3 = {"engineer", "google", "senior",
          "software"}, !.jd4 = {"engineer", "google", "senior", "software"},
          !.tech = {<<"at", "at">>, <<"engineer", "engineer">>, <<"google",
          "google">>, <<"senior", "senior">>, <<"software", "software">>},
          !.titlepat = TRUE, !.letter = TRUE, !.at = 1]
    @@ "ph.d" :> [NoMatch EXCEPT
          !.chars = 4, !.words = <<W("ph", 1, "", ""), W("d", 1, "", "")>>,
          !.alpha = 2, !.syll = 2, !.tech = {<<"ph.d", "phd">>},
          !.letter = TRUE, !.degree = {<<5, 1>>}]
    @@ "master's" :> [NoMatch EXCEPT
          !.chars = 8, !.words = <<W("master", 1, "", ""), W("s", 1, "",
          "")>>, !.alpha = 2, !.syll = 3, !.sub = {"r"}, !.res3 = {"master"},
          !.jd4 = {"master"}, !.tech = {<<"master", "master">>, <<"s",
          "s">>}, !.letter = TRUE, !.degree = {<<4, 1>>}]
    @@ "bachelor's" :> [NoMatch EXCEPT
          !.chars = 10, !.words = <<W("bachelor", 1, "", ""), W("s", 1, "",
          "")>>, !.alpha = 2, !.syll = 4, !.sub = {"r"},
          !.res3 = {"bachelor"}, !.jd4 = {"bachelor"},
          !.tech = {<<"bachelor", "bachelor">>, <<"s", "s">>},
          !.letter = TRUE, !.degree = {<<3, 1>>}]
    @@ "diploma" :> [NoMatch EXCEPT
          !.chars = 7, !.words = <<W("diploma", 1, "", "")>>, !.alpha = 1,
          !.syll = 3, !.res3 = {"diploma"}, !.jd4 = {"diploma"},
          !.tech = {<<"diploma", "diploma">>}, !.letter = TRUE,
          !.degree = {<<2, 2>>}]
    @@ "high school" :> [NoMatch EXCEPT
          !.chars = 11, !.words = <<W("high", 1, "", ""), W("school", 1, "",
          "")>>, !.alpha = 2, !.syll = 2, !.kw = {"school"},
          !.res3 = {"high", "school"}, !.jd4 = {"high", "school"},
          !.tech = {<<"high", "high">>, <<"school", "school">>},
          !.letter = TRUE, !.degree = {<<1, 1>>}]
    @@ "served as lead" :> [NoMatch EXCEPT
          !.chars = 14, !.words = <<W("served", 1, "serv", ""), W("as", 1,
          "", ""), W("lead", 1, "", "")>>, !.alpha = 3, !.syll = 4,
          !.sub = {"lead", "r"}, !.res3 = {"lead", "served"},
          !.jd4 = {"lead", "served"}, !.tech = {<<"as", "as">>, <<"lead",
          "lead">>, <<"served", "served">>}, !.letter = TRUE,
          !.degree = {<<2, 3>>}]
    @@ "gpa 3.8/4.0" :> [NoMatch EXCEPT
          !.chars = 11, !.words = <<W("gpa", 1, "", ""), W("3", 1, "", ""),
          W("8", 1, "", ""), W("4", 1, "", ""), W("0", 1, "", "")>>,
          !.alpha = 1, !.syll = 1, !.res3 = {"gpa"}, !.tech = {<<"3.8",
          "38">>, <<"4.0", "40">>, <<"gpa", "gpa">>}, !.gpa = TRUE,
          !.letter = TRUE]
    @@ "python developer with docker" :> [NoMatch EXCEPT
          !.chars = 28, !.words = <<W("python", 1, "", ""), W("developer", 1,
          "", ""), W("with", 1, "", ""), W("docker", 1, "", "")>>,
          !.alpha = 4, !.syll = 9, !.sub = {"developer", "docker", "python",
          "r"}, !.langs = {"python"}, !.res3 = {"developer", "docker",
          "python", "with"}, !.jd4 = {"developer", "docker", "python",
          "with"}, !.tech = {<<"developer", "developer">>, <<"docker",
          "docker">>, <<"python", "python">>, <<"with", "with">>},
          !.letter = TRUE]
    @@ "the and" :> [NoMatch EXCEPT
          !.chars = 7, !.words = <<W("the", 1, "", ""), W("and", 1, "",
          "")>>, !.alpha = 2, !.syll = 2, !.res3 = {"and", "the"},
          !.tech = {<<"and", "and">>, <<"the", "the">>}, !.letter = TRUE]
    @@ "lorem*60" :> [NoMatch EXCEPT
          !.chars = 359, !.words = <<W("lorem", 60, "", "")>>, !.alpha = 60,
          !.syll = 120, !.sub = {"r"}, !.res3 = {"lorem"}, !.jd4 = {"lorem"},
          !.tech = {<<"lorem", "lorem">>}, !.letter = TRUE]
    @@ "lorem*260" :> [NoMatch EXCEPT
          !.chars = 1559, !.words = <<W("lorem", 260, "", "")>>,
          !.alpha = 260, !.syll = 520, !.sub = {"r"}, !.res3 = {"lorem"},
          !.jd4 = {"lorem"}, !.tech = {<<"lorem", "lorem">>},
          !.letter = TRUE]
    @@ "lorem*295" :> [NoMatch EXCEPT
          !.chars = 1769, !.words = <<W("lorem", 295, "", "")>>,
          !.alpha = 295, !.syll = 590, !.sub = {"r"}, !.res3 = {"lorem"},
          !.jd4 = {"lorem"}, !.tech = {<<"lorem", "lorem">>},
          !.letter = TRUE]
    @@ "lorem*950" :> [NoMatch EXCEPT
          !.chars = 5699, !.words = <<W("lorem", 950, "", "")>>,
          !.alpha = 950, !.syll = 1900, !.sub = {"r"}, !.res3 = {"lorem"},
          !.jd4 = {"lorem"}, !.tech = {<<"lorem", "lorem">>},
          !.letter = TRUE]
    @@ "lorem*1100" :> [NoMatch EXCEPT
          !.chars = 6599, !.words = <<W("lorem", 1100, "", "")>>,
          !.alpha = 1100, !.syll = 2200, !.sub = {"r"}, !.res3 = {"lorem"},
          !.jd4 = {"lorem"}, !.tech = {<<"lorem", "lorem">>},
          !.letter = TRUE]

-----------------------------------------------------------------------------
(* FeatureExtractor.  A text is a sequence of lines, each a fragment of    *)
(* Lexicon, joined by newlines; Lexicon[line] records what each regular    *)
(* expression of the extractor finds in that line.  The operators below    *)
(* are the extractor's own logic over those matches: the loops, counts,    *)
(* priorities, caps and defaults.  All fragments are lower case, so        *)
(* resume_text.lower() leaves them as they are.                            *)

RECURSIVE Sum(_)
Sum(s) == IF s = <<>> THEN 0 ELSE s[1] + Sum(Tail(s))

Column(text, F(_)) == [i \in 1..Len(text) |-> F(Lexicon[text[i]])]

UnionOf(text, F(_)) == UNION {F(Lexicon[text[i]]) : i \in 1..Len(text)}

AnyLine(text, F(_)) == \E i \in 1..Len(text) : F(Lexicon[text[i]])

SetMax(S) == CHOOSE x \in S : \A y \in S : y <= x

\* round(p / q, 2) as a number of hundredths
Round2(p, q) == Round1([num |-> 10 * p, den |-> q])

\* term in text, for the terms of the vocabularies
Substrings(text) == UnionOf(text, LAMBDA r : r.sub)

_count_words(text) ==
    Sum(Column(text, LAMBDA r : Sum([j \in 1..Len(r.words) |-> r.words[j].n])))

\* len(resume_text): the lines and the newlines between them
CharCount(text) ==
    Sum(Column(text, LAMBDA r : r.chars)) + IMax(0, Len(text) - 1)

\* re.split on terminal punctuation, keeping the pieces longer than 10
RECURSIVE SentencesFrom(_, _, _, _)
SentencesFrom(text, i, cur, k) ==
    IF i > Len(text) THEN (IF k > 0 /\ cur > 10 THEN 1 ELSE 0)
    ELSE LET r == Lexicon[text[i]]
             sep == IF k > 0 THEN 1 ELSE 0
         IN  IF r.ends
             THEN (IF cur + sep + r.chars - r.punct > 10 THEN 1 ELSE 0)
                  + SentencesFrom(text, i + 1, 0, 0)
             ELSE SentencesFrom(text, i + 1, cur + sep + r.chars, k + 1)

_count_sentences(text) == SentencesFrom(text, 1, 0, 0)

\* re.search(rf'\b{name}\b...', text) for a section keyword
KeywordFound(text, name) == name \in UnionOf(text, LAMBDA r : r.kw)

\* the variant that counts every keyword found, without the break
CountKeywordHits(text) ==
    Cardinality({name \in UNION {{vocabulary.SECTION_KEYWORDS[section][j] :
                                     j \in 1..Len(vocabulary.SECTION_KEYWORDS[section])} :
                                 section \in DOMAIN vocabulary.SECTION_KEYWORDS} :
        KeywordFound(text, name)})

_count_sections(text) ==
    Cardinality({section \in DOMAIN vocabulary.SECTION_KEYWORDS :
        \E j \in 1..Len(vocabulary.SECTION_KEYWORDS[section]) :
            KeywordFound(text, vocabulary.SECTION_KEYWORDS[section][j])})

_has_section(text, section) ==
    LET keywords == IF section \in DOMAIN vocabulary.SECTION_KEYWORDS
                    THEN vocabulary.SECTION_KEYWORDS[section] ELSE <<>>
    IN  \E j \in 1..Len(keywords) : KeywordFound(text, keywords[j])

_has_email(text) == AnyLine(text, LAMBDA r : r.email)

_has_phone(text) == AnyLine(text, LAMBDA r : r.phone)

_has_linkedin(text) ==
    \E p \in {"linkedin.com", "linkedin:", "/in/", "linkedin"} : p \in Substrings(text)

_has_github(text) ==
    \E p \in {"github.com", "github:", "github.io", "github"} : p \in Substrings(text)

_count_action_verbs(text) ==
    Sum(Column(text, LAMBDA r :
        Sum([j \in 1..Len(r.words) |->
            IF \/ r.words[j].w \in vocabulary.ACTION_VERBS
               \/ r.words[j].ed \in vocabulary.ACTION_VERBS
               \/ r.words[j].ing \in vocabulary.ACTION_VERBS
            THEN r.words[j].n ELSE 0])))

_count_quantifiable_metrics(text) ==
    IMin(Sum(Column(text, LAMBDA r : r.metrics)), 50)

_count_bullet_points(text) == Sum(Column(text, LAMBDA r : r.bullets))

_count_technical_terms(text) ==
    Cardinality({t \in UnionOf(text, LAMBDA r : r.tech) :
        t[1] \in vocabulary.TECH_SKILLS \/ t[2] \in vocabulary.TECH_SKILLS})

\* the candidates: the three phrase patterns, then the year ranges with
\* present / current read as 2025
YearCandidates(text) ==
    UNION {{r[p][j] : j \in 1..Len(r[p])} :
              r \in {Lexicon[text[i]].ypat : i \in 1..Len(text)}, p \in 1..3}
    \cup UNION {{(IF d[j].present THEN 2025 ELSE d[j].end) - d[j].start : j \in 1..Len(d)} :
              d \in {Lexicon[text[i]].dates : i \in 1..Len(text)}}

_extract_years_experience(text) ==
    IF YearCandidates(text) # {} THEN SetMax(YearCandidates(text)) ELSE 0

_count_jobs(text) ==
    LET count == Sum(Column(text, LAMBDA r : Len(r.dates) + r.at))
        title_matches == Cardinality({t \in vocabulary.JOB_TITLES : t \in Substrings(text)})
    IN  IMax(IMax(count, title_matches \div 2), 1)

_has_job_titles(text) ==
    \/ AnyLine(text, LAMBDA r : r.titlepat)
    \/ \E t \in vocabulary.JOB_TITLES : t \in Substrings(text)

degree_patterns_ascending == << <<1, 3>>, <<2, 4>>, <<3, 5>>, <<4, 5>>, <<5, 3>> >>

\* (level, number of patterns of the tier), in the order the ladder is searched
degree_patterns == << <<5, 3>>, <<4, 5>>, <<3, 5>>, <<2, 4>>, <<1, 3>> >>

DegreePatternFound(text, level, j) == <<level, j>> \in UnionOf(text, LAMBDA r : r.degree)

RECURSIVE DegreeFrom(_, _, _)
DegreeFrom(text, ladder, t) ==
    IF t > Len(ladder) THEN 0
    ELSE IF \E j \in 1..ladder[t][2] : DegreePatternFound(text, ladder[t][1], j)
         THEN ladder[t][1]
         ELSE DegreeFrom(text, ladder, t + 1)

_get_degree_level(text) == DegreeFrom(text, degree_patterns, 1)

_has_gpa(text) == AnyLine(text, LAMBDA r : r.gpa)

\* the excerpt from the first skills header up to the next line that starts
\* with a letter: its commas and its list items
ExcerptEnd(text, i) ==
    LET stops == {j \in (i + 1)..Len(text) : Lexicon[text[j]].letter}
    IN  IF stops = {} THEN Len(text) ELSE (CHOOSE j \in stops : \A h \in stops : j <= h) - 1

_count_skills(text) ==
    LET tech_count == _count_technical_terms(text)
        headers == {i \in 1..Len(text) : Lexicon[text[i]].skillhdr}
        i == CHOOSE i \in headers : \A h \in headers : i <= h
        rest == SubSeq(text, i + 1, ExcerptEnd(text, i))
        comma_count == Lexicon[text[i]].commas_after
                       + Sum(Column(rest, LAMBDA r : r.commas)) + 1
        list_items == Lexicon[text[i]].items_after
                      + Sum(Column(rest, LAMBDA r : r.items))
    IN  IF headers # {}
        THEN IMin(IMax(IMax(tech_count, comma_count), list_items), 50)
        ELSE IMin(tech_count, 50)

_count_programming_languages(text) ==
    Cardinality(UnionOf(text, LAMBDA r : r.langs))
    + (IF AnyLine(text, LAMBDA r : r.barec) THEN 1 ELSE 0)

\* textstat.flesch_reading_ease, by the formula the library documents:
\* 206.835 - 1.015 * words / sentences - 84.6 * syllables / words.  A text
\* with no word makes it divide by zero, which the caller catches.
flesch_reading_ease(text) ==
    LET words == Sum(Column(text, LAMBDA r : r.alpha))
        sentences == IMax(1, Cardinality({i \in 1..Len(text) : Lexicon[text[i]].ends}))
        syllables == Sum(Column(text, LAMBDA r : r.syll))
    IN  [num |-> 206835 * sentences * words - 1015 * words * words
                 - 84600 * syllables * sentences,
         den |-> 1000 * sentences * words]

_get_readability_score(text) ==
    IF Sum(Column(text, LAMBDA r : r.alpha)) = 0 THEN Rat(60)
    ELSE RMax(Rat(20), RMin(Rat(100), flesch_reading_ease(text)))

_check_length(word_count) == 250 <= word_count /\ word_count <= 900

_check_consistent_formatting(text) ==
    LET date_formats == IMax(Sum(Column(text, LAMBDA r : r.date1)),
                             Sum(Column(text, LAMBDA r : r.date2)))
        bullet_types ==
            (IF Sum(Column(text, LAMBDA r : r.glyph)) > 2 THEN 1 ELSE 0)
            + (IF Sum(Column(text, LAMBDA r : r.disc)) > 2 THEN 1 ELSE 0)
            + (IF Sum(Column(text, LAMBDA r : r.dash)) > 5 THEN 1 ELSE 0)
            + (IF Sum(Column(text, LAMBDA r : r.star)) > 2 THEN 1 ELSE 0)
    IN  date_formats >= 2 /\ bullet_types <= 2

-----------------------------------------------------------------------------
(* FeatureExtractor._calculate_keyword_match.  A job description is        *)
(* [given |-> FALSE] for None, and otherwise carries its text, the empty   *)
(* sequence being the empty string.                                        *)

filler_words ==
    {"the", "and", "for", "with", "this", "that", "from", "have", "will",
     "your", "our", "you", "are", "can", "they", "their", "about", "more",
     "been", "being", "would", "could", "should", "also", "other", "than",
     "just", "only", "over", "such", "into", "through", "during", "before",
     "after", "above", "below", "between", "under", "again", "further",
     "then", "once", "here", "there", "when", "where", "which", "while",
     "company", "team", "work", "working", "looking", "position", "role",
     "experience", "required", "requirements", "qualifications", "skills",
     "ability", "knowledge", "understanding", "excellent", "strong", "good"}

None == [given |-> FALSE, text |-> <<>>]

Text(t) == [given |-> TRUE, text |-> t]

\* the technical terms found in a text by substring
TechTermsIn(text) == {term \in vocabulary.TECH_SKILLS : term \in Substrings(text)}

\* the job description's words of four letters or more, fillers removed
JdWords(jd_text) == UnionOf(jd_text, LAMBDA r : r.jd4) \ filler_words

\* the resume's words of three letters or more
ResumeWords(text) == UnionOf(text, LAMBDA r : r.res3)

NormalizeUpperOnly(x) == RMin(Rat(95), x)

\* max(10, min(95, x))
Normalize(x) == RMax(Rat(10), RMin(Rat(95), x))

MatchScorePerResumeTerm(jd_tech, important_keywords, resume_words, resume_tech) ==
    LET all_resume_terms == resume_words \cup resume_tech
        matches == important_keywords \cap all_resume_terms
        tech_matches == jd_tech \cap resume_tech
        total_matches == Cardinality(matches) + Cardinality(tech_matches) * 2
    IN  Normalize([num |-> total_matches * 100,
                   den |-> IMax(Cardinality(all_resume_terms), 1)])

\* the score once the important keywords are known to be non-empty
MatchScore(jd_tech, important_keywords, resume_words, resume_tech) ==
    LET all_resume_terms == resume_words \cup resume_tech
        matches == important_keywords \cap all_resume_terms
        tech_matches == jd_tech \cap resume_tech
        tech_weight == Cardinality(tech_matches) * 2
        total_important == Cardinality(important_keywords) + Cardinality(jd_tech)
        total_matches == Cardinality(matches) + tech_weight
    IN  IF total_important = 0 THEN Rat(50)
        ELSE Normalize([num |-> total_matches * 100, den |-> total_important])

_calculate_keyword_match(resume_text, job_description) ==
    IF ~job_description.given \/ job_description.text = <<>> THEN Rat(50)
    ELSE LET jd_tech == TechTermsIn(job_description.text)
             important_keywords == jd_tech \cup JdWords(job_description.text)
         IN  IF important_keywords = {} THEN Rat(50)
             ELSE MatchScore(jd_tech, important_keywords,
                             ResumeWords(resume_text), TechTermsIn(resume_text))

-----------------------------------------------------------------------------
(* FeatureExtractor.extract_features: the dictionary, key by key in the    *)
(* order the source inserts them.                                          *)

FeatureItems(resume_text, job_description) ==
    LET text == resume_text
        word_count == _count_words(text)
        sentence_count == _count_sentences(text)
        char_count == CharCount(resume_text)
    IN  << <<"total_words", word_count>>,
           <<"total_sentences", sentence_count>>,
           <<"total_characters", char_count>>,
           <<"avg_word_length", Round2(char_count * 10, IMax(word_count, 1) * 12)>>,
           <<"avg_sentence_length", Round2(word_count, IMax(sentence_count, 1))>>,
           <<"total_sections", _count_sections(text)>>,
           <<"has_summary", _has_section(text, "summary")>>,
           <<"has_experience", _has_section(text, "experience")>>,
           <<"has_education", _has_section(text, "education")>>,
           <<"has_skills", _has_section(text, "skills")>>,
           <<"has_projects", _has_section(text, "projects")>>,
           <<"has_certifications", _has_section(text, "certifications")>>,
           <<"has_email", _has_email(text)>>,
           <<"has_phone", _has_phone(text)>>,
           <<"has_linkedin", _has_linkedin(text)>>,
           <<"has_github", _has_github(text)>>,
           <<"action_verb_count", _count_action_verbs(text)>>,
           <<"quantifiable_metrics", _count_quantifiable_metrics(text)>>,
           <<"bullet_point_count", _count_bullet_points(resume_text)>>,
           <<"technical_terms_count", _count_technical_terms(text)>>,
           <<"years_of_experience", _extract_years_experience(text)>>,
           <<"number_of_jobs", _count_jobs(text)>>,
           <<"has_job_titles", _has_job_titles(text)>>,
           <<"degree_level", _get_degree_level(text)>>,
           <<"has_gpa", _has_gpa(text)>>,
           <<"total_skills_mentioned", _count_skills(text)>>,
           <<"programming_languages", _count_programming_languages(text)>>,
           <<"readability_score", _get_readability_score(resume_text)>>,
           <<"appropriate_length", _check_length(word_count)>>,
           <<"consistent_formatting", _check_consistent_formatting(resume_text)>>,
           <<"keyword_match_score", _calculate_keyword_match(text, job_description)>> >>

\* the keys of a dictionary built from items, in insertion order
Keys(items) == [i \in 1..Len(items) |-> items[i][1]]

\* the dictionary itself: a later item with the same key would replace an
\* earlier one
Dict(items) ==
    [k \in {items[i][1] : i \in 1..Len(items)} |->
        items[CHOOSE i \in 1..Len(items) :
                 items[i][1] = k /\ \A j \in (i + 1)..Len(items) : items[j][1] # k][2]]

extract_features(resume_text, job_description) ==
    Dict(FeatureItems(resume_text, job_description))


-----------------------------------------------------------------------------
(* MLService: load_model and predict_ats_score.                            *)

\* what a model file can hold in place of a predictor
PickledObjects == {"None", "XGBRegressor", "Classifier"}

\* the model file load_model settles on, and the scaler file beside it:
\* absent, unreadable, a v2 package (a dict with a 'model' key) or a v1
\* pickle of the model alone
ModelFiles ==
    {[kind |-> "missing"], [kind |-> "unreadable"]}
    \cup {[kind |-> "v2", model |-> m, scaler |-> sc, feature_columns |-> c,
            version |-> v] :
            m \in PickledObjects, sc \in {"None", "StandardScaler"},
            c \in {"absent", "FEATURE_COLUMNS"}, v \in {"absent", "2.0"}}
    \cup {[kind |-> "v1", model |-> m, scaler_file |-> f] :
            m \in PickledObjects, f \in {"missing", "unreadable", "StandardScaler"}}

\* ATSModelTrainerV2.FEATURE_COLUMNS, which save_model writes into the package
FEATURE_COLUMNS ==
    << "total_words", "total_sentences", "total_characters",
       "avg_word_length", "avg_sentence_length",
       "total_sections", "has_summary", "has_experience",
       "has_education", "has_skills", "has_projects", "has_certifications",
       "has_email", "has_phone", "has_linkedin", "has_github",
       "action_verb_count", "quantifiable_metrics", "bullet_point_count",
       "technical_terms_count", "years_of_experience", "number_of_jobs",
       "has_job_titles", "degree_level", "has_gpa",
       "total_skills_mentioned", "programming_languages",
       "readability_score", "appropriate_length", "consistent_formatting",
       "keyword_match_score" >>

\* the service fields after load_model(file), and the value it returns;
\* feature_names is <<>> for None and <<list>> for a list
LoadResult(file) ==
    LET now == [model |-> model, scaler |-> scaler, feature_names |-> feature_names,
                model_loaded |-> model_loaded, model_version |-> model_version]
    IN  CASE file.kind = "missing" -> [fields |-> now, returns |-> FALSE]
          [] file.kind = "unreadable" -> [fields |-> now, returns |-> FALSE]
          [] file.kind = "v2" ->
                [fields |-> [model |-> file.model, scaler |-> file.scaler,
                             feature_names |->
                                 IF file.feature_columns = "absent" THEN << <<>> >>
                                 ELSE <<FEATURE_COLUMNS>>,
                             model_loaded |-> TRUE,
                             model_version |-> IF file.version = "absent" THEN "2.0"
                                               ELSE file.version],
                 returns |-> TRUE]
          [] file.kind = "v1" /\ file.scaler_file = "unreadable" ->
                [fields |-> [now EXCEPT !.model = file.model, !.model_version = "1.0"],
                 returns |-> FALSE]
          [] file.kind = "v1" /\ file.scaler_file = "missing" ->
                [fields |-> [now EXCEPT !.model = file.model, !.model_version = "1.0",
                                        !.model_loaded = TRUE],
                 returns |-> TRUE]
          [] file.kind = "v1" /\ file.scaler_file = "StandardScaler" ->
                [fields |-> [now EXCEPT !.model = file.model, !.model_version = "1.0",
                                        !.scaler = "StandardScaler", !.model_loaded = TRUE],
                 returns |-> TRUE]

\* the fields whose values are Python bools
BooleanFields ==
    {"has_summary", "has_experience", "has_education", "has_skills",
     "has_projects", "has_certifications", "has_email", "has_phone",
     "has_linkedin", "has_github", "has_job_titles", "has_gpa",
     "appropriate_length", "consistent_formatting"}

\* the fields whose values are kept as rationals
RationalFields == {"readability_score", "keyword_match_score"}

\* the fields whose values are kept as a number of hundredths
HundredthFields == {"avg_word_length", "avg_sentence_length"}

\* the variant that converts only the fields the dictionary holds
ArrayOfPresentFields(features) ==
    LET present == SelectSeq(feature_order, LAMBDA name : name \in DOMAIN features)
    IN  [i \in 1..Len(present) |->
            IF present[i] \in BooleanFields
                THEN Rat(IF features[present[i]] THEN 1 ELSE 0)
            ELSE IF present[i] \in RationalFields THEN features[present[i]]
            ELSE IF present[i] \in HundredthFields
                THEN [num |-> features[present[i]], den |-> 100]
            ELSE Rat(features[present[i]])]

\* MLService._features_to_array: every entry a float, here a rational
_features_to_array(features) ==
    [i \in 1..Len(feature_order) |->
        LET feature_name == feature_order[i]
        IN  IF feature_name \notin DOMAIN features THEN Rat(0)
            ELSE IF feature_name \in BooleanFields
                 THEN Rat(IF features[feature_name] THEN 1 ELSE 0)
            ELSE IF feature_name \in RationalFields THEN features[feature_name]
            ELSE IF feature_name \in HundredthFields
                 THEN [num |-> features[feature_name], den |-> 100]
            ELSE Rat(features[feature_name])]

\* what the loaded scaler and predictor do with one feature array: either
\* raises, or the predictor returns a score; predict_proba, where the model
\* has it, returns a highest probability or raises
PredictorOutcomes ==
    {[kind |-> "transform_raises"], [kind |-> "predict_raises"]}
    \cup {[kind |-> "score", score |-> sc, proba |-> "0.9"] :
            sc \in {[num |-> -15, den |-> 1], [num |-> 7326, den |-> 100],
                    [num |-> 140, den |-> 1]}}
    \cup {[kind |-> "score", score |-> [num |-> 7326, den |-> 100], proba |-> "raises"]}

\* the outcomes the loaded objects allow
Possible(outcome) ==
    /\ outcome.kind = "transform_raises" => scaler # "None"
    /\ outcome.kind = "score" => model # "None"

_get_confidence(outcome) ==
    IF model = "Classifier" /\ outcome.proba # "raises"
    THEN [num |-> 9, den |-> 10]
    ELSE [num |-> 85, den |-> 100]

\* the variant that keeps the predictor's scalar as it is
ModelPredictionUnclamped(features, outcome) ==
    IF outcome.kind # "score" THEN _fallback_prediction(features)
    ELSE [overall_score |-> Round1(outcome.score),
          confidence    |-> _get_confidence(outcome),
          breakdown     |-> _generate_breakdown(features, outcome.score),
          suggestions   |-> _generate_suggestions(features, outcome.score),
          model_version |-> IF model_version # "None" THEN model_version
                            ELSE "2.0.0"]

\* the try block of predict_ats_score, and its except
ModelPrediction(features, outcome) ==
    IF outcome.kind # "score" THEN _fallback_prediction(features)
    ELSE LET score == Clamp(0, 100, outcome.score)
         IN  [overall_score |-> Round1(score),
              confidence    |-> _get_confidence(outcome),
              breakdown     |-> _generate_breakdown(features, score),
              suggestions   |-> _generate_suggestions(features, score),
              model_version |-> IF model_version # "None" THEN model_version
                                ELSE "2.0.0"]

PredictWithoutGuard(features, outcome) == ModelPrediction(features, outcome)

predict_ats_score(features, outcome) ==
    IF ~model_loaded THEN _fallback_prediction(features)
    ELSE ModelPrediction(features, outcome)

-----------------------------------------------------------------------------
(* IndustryGradeATSGenerator: the keys of a generated row, and seeding.    *)
(* A random state is named by where it came from (the entropy the process  *)
(* started with, or a seed) and by how many draws have been made from it;  *)
(* the value of a draw is a function of the state it is drawn from.        *)

\* the keys of generate_resume_features' dictionary, before ats_score
GeneratorFeatureKeys ==
    << "total_words", "total_sentences", "total_characters",
       "avg_word_length", "avg_sentence_length", "total_sections",
       "has_summary", "has_experience", "has_education", "has_skills",
       "has_projects", "has_certifications", "has_email", "has_phone",
       "has_linkedin", "has_github", "action_verb_count",
       "quantifiable_metrics", "bullet_point_count", "technical_terms_count",
       "years_of_experience", "number_of_jobs", "has_job_titles",
       "degree_level", "has_gpa", "total_skills_mentioned",
       "programming_languages", "readability_score", "appropriate_length",
       "consistent_formatting", "keyword_match_score" >>

Entropy(k) == [origin |-> "entropy", id |-> k, pos |-> 0]

Seeded(n) == [origin |-> "seed", id |-> n, pos |-> 0]

Abs(n) == IF n < 0 THEN -n ELSE n

\* a seed argument: None, or an integer
NoSeed == [given |-> FALSE, value |-> 0]

Seed(n) == [given |-> TRUE, value |-> n]

\* IndustryGradeATSGenerator(seed): `if seed:` then random.seed(seed), which
\* takes the absolute value of an integer, then np.random.seed(seed), which
\* raises ValueError on a negative one
GeneratorInit(seed) ==
    LET seeding == seed.given /\ seed.value # 0
    IN  /\ rng' = IF ~seeding THEN rng
                  ELSE [py |-> Seeded(Abs(seed.value)),
                        np |-> IF seed.value < 0 THEN rng.np ELSE Seeded(seed.value)]
        /\ op' = "IndustryGradeATSGenerator"
        /\ args' = [seed |-> seed]
        /\ ret' = [raises |-> IF seeding /\ seed.value < 0 THEN "ValueError" ELSE "None"]
        /\ UNCHANGED <<service, vocabulary, first, calls>>

-----------------------------------------------------------------------------
(* Operations.  op, args and ret hold the last call; first holds, for the  *)
(* extractor and for the rule-based scorer, the arguments and the result   *)
(* of the first call made, and how many calls repeated those arguments.    *)

NoCall == <<>>

NoCalls == [extract |-> NoCall, score |-> NoCall]

Logged(log, a, r) ==
    IF log = NoCall THEN <<[args |-> a, ret |-> r, calls |-> 1]>>
    ELSE IF log[1].args = a THEN <<[log[1] EXCEPT !.calls = @ + 1]>>
    ELSE log

\* MLService.load_model
LoadModel(file) ==
    LET result == LoadResult(file)
    IN  /\ model' = result.fields.model
        /\ scaler' = result.fields.scaler
        /\ feature_names' = result.fields.feature_names
        /\ model_loaded' = result.fields.model_loaded
        /\ model_version' = result.fields.model_version
        /\ op' = "load_model"
        /\ args' = [file |-> file]
        /\ ret' = [returns |-> result.returns]
        /\ UNCHANGED <<vocabulary, rng, first, calls>>

\* MLService.predict_ats_score
PredictAtsScore(features, outcome) ==
    /\ Possible(outcome)
    /\ op' = "predict_ats_score"
    /\ args' = [features |-> features, outcome |-> outcome]
    /\ ret' = predict_ats_score(features, outcome)
    /\ UNCHANGED <<service, vocabulary, rng, first, calls>>

\* app.predict_ats_score_from_text: a request carries resume_text and an
\* optional job_description
PredictAtsScoreFromText(request, outcome) ==
    /\ Possible(outcome)
    /\ op' = "predict_ats_score_from_text"
    /\ args' = [request |-> request, outcome |-> outcome]
    /\ ret' = IF request.resume_text = <<>> \/ CharCount(request.resume_text) < 50
              THEN [status_code |-> 400, detail |-> "Resume text is too short"]
              ELSE [status_code |-> 200,
                    body |-> predict_ats_score(
                                extract_features(request.resume_text,
                                                 request.job_description),
                                outcome)]
    /\ UNCHANGED <<service, vocabulary, rng, first, calls>>

ExtractFeaturesLearning(resume_text, job_description) ==
    LET input == [resume_text |-> resume_text, job_description |-> job_description]
        features == extract_features(resume_text, job_description)
    IN  /\ op' = "extract_features"
        /\ args' = input
        /\ ret' = features
        /\ first' = [first EXCEPT !.extract = Logged(@, input, features)]
        /\ vocabulary' = [vocabulary EXCEPT
                             !.TECH_SKILLS = @ \cup ResumeWords(resume_text)]
        /\ UNCHANGED <<service, rng, calls>>

\* FeatureExtractor.extract_features
ExtractFeatures(resume_text, job_description) ==
    LET input == [resume_text |-> resume_text, job_description |-> job_description]
        features == extract_features(resume_text, job_description)
    IN  /\ op' = "extract_features"
        /\ args' = input
        /\ ret' = features
        /\ first' = [first EXCEPT !.extract = Logged(@, input, features)]
        /\ UNCHANGED <<service, vocabulary, rng, calls>>

\* MLService._fallback_prediction
FallbackPrediction(features) ==
    LET input == [features |-> features]
        result == _fallback_prediction(features)
    IN  /\ op' = "_fallback_prediction"
        /\ args' = input
        /\ ret' = result
        /\ first' = [first EXCEPT !.score = Logged(@, input, result)]
        /\ UNCHANGED <<service, vocabulary, rng, calls>>

\* FeatureExtractor._calculate_keyword_match, for two resumes and one job
\* description
KeywordMatch(resume_a, resume_b, job_description) ==
    /\ op' = "_calculate_keyword_match"
    /\ args' = [resume_a |-> resume_a, resume_b |-> resume_b,
                job_description |-> job_description]
    /\ ret' = [a |-> _calculate_keyword_match(resume_a, job_description),
               b |-> _calculate_keyword_match(resume_b, job_description)]
    /\ UNCHANGED <<service, vocabulary, rng, first, calls>>

\* random.gauss(0, 2.5) in _calculate_ats_score: the noise drawn is the
\* one the state determines
RandomGauss ==
    /\ op' = "random.gauss"
    /\ args' = <<>>
    /\ ret' = [noise |-> rng.py]
    /\ rng' = [rng EXCEPT !.py.pos = @ + 1]
    /\ UNCHANGED <<service, vocabulary, first, calls>>

-----------------------------------------------------------------------------
(* Inputs.                                                                 *)

MaxOverrides == 2

MaxResumeLines == 2

MaxLines == 3

MaxCalls == 2

MaxDraws == 3

MaxPriorStates == 2

EmptyFeatures == <<>>

\* the dictionary test_ml_service passes: 13 of the 31 fields
TestFeatures ==
    [total_words |-> 500, total_sentences |-> 30, action_verb_count |-> 12,
     quantifiable_metrics |-> 5, has_summary |-> TRUE, has_experience |-> TRUE,
     has_education |-> TRUE, has_skills |-> TRUE,
     keyword_match_score |-> Rat(70), total_skills_mentioned |-> 10,
     years_of_experience |-> 5, appropriate_length |-> TRUE,
     consistent_formatting |-> TRUE]

\* a complete dictionary of a strong resume
StrongFeatures ==
    [total_words |-> 650, total_sentences |-> 40, total_characters |-> 3900,
     avg_word_length |-> 500, avg_sentence_length |-> 1625,
     total_sections |-> 6, has_summary |-> TRUE, has_experience |-> TRUE,
     has_education |-> TRUE, has_skills |-> TRUE, has_projects |-> TRUE,
     has_certifications |-> TRUE, has_email |-> TRUE, has_phone |-> TRUE,
     has_linkedin |-> TRUE, has_github |-> TRUE, action_verb_count |-> 20,
     quantifiable_metrics |-> 12, bullet_point_count |-> 18,
     technical_terms_count |-> 22, years_of_experience |-> 8,
     number_of_jobs |-> 4, has_job_titles |-> TRUE, degree_level |-> 4,
     has_gpa |-> TRUE, total_skills_mentioned |-> 20,
     programming_languages |-> 5, readability_score |-> Rat(62),
     appropriate_length |-> TRUE, consistent_formatting |-> TRUE,
     keyword_match_score |-> Rat(95)]

FeaturePresets == {EmptyFeatures, TestFeatures, StrongFeatures}

\* values a caller can put under the fields the scorer reads
FieldValues ==
       "keyword_match_score" :> {Rat(-100), Rat(59), Rat(60), Rat(130)}
    @@ "action_verb_count" :> {-5, 7, 8}
    @@ "quantifiable_metrics" :> {-3, 2, 3}
    @@ "years_of_experience" :> {-5, 60}
    @@ "total_sections" :> {-1, 9}
    @@ "total_skills_mentioned" :> {-2, 7, 8}
    @@ "programming_languages" :> {0, 12}
    @@ "bullet_point_count" :> {4, 5, 6}
    @@ "total_words" :> {299, 300, 1000, 1001}
    @@ "has_summary" :> BOOLEAN
    @@ "has_experience" :> BOOLEAN
    @@ "has_education" :> BOOLEAN
    @@ "has_skills" :> BOOLEAN
    @@ "has_email" :> BOOLEAN
    @@ "has_phone" :> BOOLEAN
    @@ "appropriate_length" :> BOOLEAN
    @@ "consistent_formatting" :> BOOLEAN

Put(features, name, value) ==
    [k \in DOMAIN features \cup {name} |-> IF k = name THEN value ELSE features[k]]

Drop(features, name) == [k \in DOMAIN features \ {name} |-> features[k]]

\* the presets with up to k fields set or removed
RECURSIVE Vectors(_)
Vectors(k) ==
    IF k = 0 THEN FeaturePresets
    ELSE LET prev == Vectors(k - 1)
         IN  prev
             \cup UNION {{Put(v, f, x) : v \in prev, x \in FieldValues[f]} :
                            f \in DOMAIN FieldValues}
             \cup {Drop(v, f) : v \in prev, f \in DOMAIN FieldValues}

\* the texts of at most n lines over the given fragments
RECURSIVE Texts(_, _)
Texts(fragments, n) ==
    IF n = 0 THEN {<<>>}
    ELSE LET shorter == Texts(fragments, n - 1)
         IN  shorter \cup {Append(t, f) : t \in shorter, f \in fragments}

KeywordResumeFragments ==
    {"skills: python, docker, sql", "* built rest apis in java",
     "managed team of 10 engineers", "the and"}

SampleJobDescriptions ==
    {None, Text(<<>>), Text(<<"the and">>),
     Text(<<"python developer with docker">>),
     Text(<<"senior software engineer at google", "managed team of 10 engineers">>),
     Text(<<"- led migration to kubernetes", "* built rest apis in java",
            "skills: python, docker, sql", "professional experience:">>)}

DegreeFragments ==
    {"ph.d", "master's", "bachelor's", "diploma", "high school", "education",
     "lorem*60"}

SampleResume ==
    <<"summary", "senior software engineer at google", "jane@example.com",
      "(555) 123-4567", "professional experience:", "2019-present",
      "- led migration to kubernetes", "increased revenue by 30%.",
      "education", "master's", "skills: python, docker, sql">>

SampleResumes ==
    {<<>>, <<"jane@example.com">>, <<"lorem*60", "2020 - 2015">>,
     <<"lorem*295", "bachelor's", "5 years of experience">>, SampleResume}

SampleRequests ==
    {[resume_text |-> t, job_description |-> jd] :
        t \in SampleResumes, jd \in {None, Text(<<"python developer with docker">>)}}

RepeatRequests ==
    {[resume_text |-> t, job_description |-> jd] :
        t \in {<<"lorem*60", "2020 - 2015">>, SampleResume},
        jd \in {None, Text(<<"python developer with docker">>)}}

SeedArguments == {NoSeed, Seed(0), Seed(1), Seed(7), Seed(42), Seed(-1)}

\* the fields of a dictionary whose value the rule-based scorer multiplies
\* or compares: None under one of them raises TypeError there
FieldsComputedWith ==
    {"keyword_match_score", "action_verb_count", "quantifiable_metrics",
     "years_of_experience", "total_sections", "total_skills_mentioned",
     "bullet_point_count", "programming_languages"}

\* _fallback_prediction on the dictionary that holds None under field and
\* the entries of features elsewhere: None where the scorer computes raises,
\* total_words is compared only when appropriate_length is falsy, and None
\* anywhere else reads as false or is not read
FallbackOnNoneValue(features, field) ==
    LET others == Drop(features, field)
    IN  IF \/ field \in FieldsComputedWith
           \/ field = "total_words" /\ ~Get(others, "appropriate_length", FALSE)
        THEN [raises |-> "TypeError"]
        ELSE _fallback_prediction(others)

\* fields under which a caller passes None
NoneFields ==
    {"total_sections", "total_words", "keyword_match_score", "has_email",
     "degree_level"}

\* MLService.predict_ats_score on a dictionary with None under one of the
\* 31 fields: without a model the rule-based scorer runs at once; with one,
\* float(None) raises in _features_to_array and the except clause runs it
PredictAtsScoreNoneValue(features, field) ==
    /\ op' = "predict_ats_score_none_value"
    /\ args' = [features |-> Drop(features, field), none |-> field]
    /\ ret' = IF ~model_loaded THEN FallbackOnNoneValue(features, field)
              ELSE FallbackOnNoneValue(features, field)
    /\ UNCHANGED <<service, vocabulary, rng, first, calls>>

-----------------------------------------------------------------------------
(* Specifications.                                                         *)

NothingLoaded ==
    /\ model = "None"
    /\ scaler = "None"
    /\ feature_names = <<>>
    /\ model_loaded = FALSE
    /\ model_version = "None"

Idle ==
    /\ NothingLoaded
    /\ vocabulary = InitialVocabulary
    /\ rng = [py |-> Entropy(1), np |-> Entropy(1)]
    /\ op = "none"
    /\ ret = <<>>
    /\ first = NoCalls
    /\ calls = <<>>

\* the service as app.py runs it and as test_backend.py calls it
Init == Idle /\ args = <<>>

Next ==
    \/ \E file \in ModelFiles : LoadModel(file)
    \/ \E features \in FeaturePresets, outcome \in PredictorOutcomes :
          PredictAtsScore(features, outcome)
    \/ \E request \in SampleRequests, outcome \in PredictorOutcomes :
          PredictAtsScoreFromText(request, outcome)
    \/ \E features \in FeaturePresets, field \in NoneFields :
          PredictAtsScoreNoneValue(features, field)

Spec == Init /\ [][Next]_vars

\* the rule-based scorer on one feature dictionary
InitScorer ==
    /\ Idle
    /\ args \in {[features |-> v] : v \in Vectors(MaxOverrides)}

NextScorer == op = "none" /\ FallbackPrediction(args.features)

SpecScorer == InitScorer /\ [][NextScorer]_vars

\* the keyword matcher on two resumes and one job description
InitKeyword ==
    /\ Idle
    /\ args \in {[resume_a |-> a, resume_b |-> b, job_description |-> jd] :
                    a \in Texts(KeywordResumeFragments, MaxResumeLines),
                    b \in Texts(KeywordResumeFragments, MaxResumeLines),
                    jd \in SampleJobDescriptions}

NextKeyword ==
    op = "none" /\ KeywordMatch(args.resume_a, args.resume_b, args.job_description)

SpecKeyword == InitKeyword /\ [][NextKeyword]_vars

\* the extractor on one text
InitExtract ==
    /\ Idle
    /\ args \in {[resume_text |-> t, job_description |-> jd] :
                    t \in Texts(DegreeFragments, MaxLines),
                    jd \in {None, Text(<<"python developer with docker">>)}}

NextExtract ==
    op = "none" /\ ExtractFeatures(args.resume_text, args.job_description)

SpecExtract == InitExtract /\ [][NextExtract]_vars

\* extraction and rule-based scoring, called again and again in any order
CallsOf(log, a) == IF log # NoCall /\ log[1].args = a THEN log[1].calls ELSE 0

InitRepeat == Idle /\ args = <<>>

NextRepeat ==
    \/ \E request \in RepeatRequests :
          /\ CallsOf(first.extract, request) < MaxCalls
          /\ ExtractFeatures(request.resume_text, request.job_description)
    \/ \E features \in FeaturePresets :
          /\ CallsOf(first.score, [features |-> features]) < MaxCalls
          /\ FallbackPrediction(features)
    \/ /\ op = "extract_features"
       /\ CallsOf(first.score, [features |-> ret]) < MaxCalls
       /\ FallbackPrediction(ret)

SpecRepeat == InitRepeat /\ [][NextRepeat]_vars

\* generators constructed and noise drawn, from any earlier random state
InitSeed ==
    /\ NothingLoaded
    /\ vocabulary = InitialVocabulary
    /\ rng \in {[py |-> Entropy(j), np |-> Entropy(k)] :
                   j \in 1..MaxPriorStates, k \in 1..MaxPriorStates}
    /\ op = "none"
    /\ args = <<>>
    /\ ret = <<>>
    /\ first = NoCalls
    /\ calls = <<>>

NextSeed ==
    \/ \E seed \in SeedArguments : GeneratorInit(seed)
    \/ rng.py.pos < MaxDraws /\ RandomGauss

SpecSeed == InitSeed /\ [][NextSeed]_vars

-----------------------------------------------------------------------------
(* Properties.  Scores rounded to one decimal are numbers of tenths, so    *)
(* the range [0, 100] is 0..1000.                                          *)

REq(a, b) == a.num * b.den = b.num * a.den

\* C1: for every feature dictionary, fields missing or not, the overall
\* score the rule-based scorer returns lies in [0, 100].
FallbackScoreInRange ==
    op = "_fallback_prediction" => ret.overall_score \in 0..1000

\* a dictionary with fields missing whose weighted sum exceeds 100
FallbackScoreCapped ==
    /\ op = "_fallback_prediction"
    /\ DOMAIN args.features # {feature_order[i] : i \in 1..Len(feature_order)}
    /\ RLt(Rat(100), FallbackRawScore(args.features))
    /\ ret.overall_score = 1000

SubScoresInRange(breakdown) ==
    /\ breakdown.keywords \in 0..1000
    /\ breakdown.experience \in 0..1000
    /\ breakdown.formatting \in 0..1000
    /\ breakdown.skills \in 0..1000
    /\ breakdown.structure \in 0..1000

\* C2: each of the five breakdown sub-scores lies in [0, 100], for the
\* dictionaries passed to predict_ats_score and for those extract_features
\* produces from a request's text.
BreakdownInRange ==
    /\ op = "predict_ats_score" => SubScoresInRange(ret.breakdown)
    /\ op = "predict_ats_score_from_text" /\ ret.status_code = 200
          => SubScoresInRange(ret.body.breakdown)

\* C3: the suggestion list has at most 8 entries and is sorted by priority
\* rank: high before medium before low.
SuggestionsCappedAndSorted ==
    op = "_fallback_prediction" =>
        /\ Len(ret.suggestions) <= 8
        /\ \A i, j \in 1..Len(ret.suggestions) :
              i < j => priority_order(ret.suggestions[i].priority)
                          <= priority_order(ret.suggestions[j].priority)

\* all eight rules fire, in an order the sort has to change
SuggestionsReordered ==
    /\ op = "_fallback_prediction"
    /\ Len(ret.suggestions) = 8
    /\ FiredSuggestions(args.features) # ret.suggestions

ImportantKeywords(jd_text) == TechTermsIn(jd_text) \cup JdWords(jd_text)

\* C4: the keyword match is exactly 50 when the job description is None or
\* empty or yields no important keyword, and lies in [10, 95] otherwise.
KeywordMatchRange ==
    op = "_calculate_keyword_match" =>
        IF \/ ~args.job_description.given
           \/ args.job_description.text = <<>>
           \/ ImportantKeywords(args.job_description.text) = {}
        THEN ret.a = Rat(50)
        ELSE RLe(Rat(10), ret.a) /\ RLe(ret.a, Rat(95))

\* a job description with important keywords of which the resume has too
\* few to reach 10
KeywordMatchFloor ==
    /\ op = "_calculate_keyword_match"
    /\ args.job_description.given
    /\ ImportantKeywords(args.job_description.text) # {}
    /\ args.resume_a # <<>>
    /\ REq(ret.a, Rat(10))

TermsIncluded(resume_a, resume_b) ==
    /\ ResumeWords(resume_a) \subseteq ResumeWords(resume_b)
    /\ TechTermsIn(resume_a) \subseteq TechTermsIn(resume_b)

\* C5: for one job description, a resume whose words and technical terms
\* include another's scores at least as high a keyword match.
KeywordMatchMonotone ==
    op = "_calculate_keyword_match" /\ TermsIncluded(args.resume_a, args.resume_b)
        => RLe(ret.a, ret.b)

\* a resume with strictly more terms and a strictly higher score
KeywordMatchIncreased ==
    /\ op = "_calculate_keyword_match"
    /\ TermsIncluded(args.resume_a, args.resume_b)
    /\ ~TermsIncluded(args.resume_b, args.resume_a)
    /\ RLt(ret.a, ret.b)

TiersMatched(text) == {d[1] : d \in UnionOf(text, LAMBDA r : r.degree)}

\* C7: the degree level is in 0..5 and is the highest tier one of whose
\* patterns matches the text, 0 when none does; a text matching the
\* Bachelor's and the Master's tier, and not the PhD tier, yields 4.
DegreeLevelHighestTier ==
    op = "extract_features" =>
        LET tiers == TiersMatched(args.resume_text)
        IN  /\ ret.degree_level \in 0..5
            /\ ret.degree_level = IF tiers = {} THEN 0 ELSE SetMax(tiers)
            /\ {3, 4} \subseteq tiers /\ 5 \notin tiers => ret.degree_level = 4

\* a text matching the Bachelor's, the Master's and a lower tier
DegreeBachelorAndMaster ==
    /\ op = "extract_features"
    /\ {3, 4} \subseteq TiersMatched(args.resume_text)
    /\ TiersMatched(args.resume_text) \cap {1, 2} # {}
    /\ 5 \notin TiersMatched(args.resume_text)
    /\ ret.degree_level = 4

\* C8: a call of extract_features, or of the rule-based scorer, with the
\* arguments of the first call returns what the first call returned,
\* whatever was called in between, and no call changes the pattern
\* vocabularies or the service fields.
Repeatable ==
    /\ op = "extract_features" /\ first.extract[1].args = args
          => ret = first.extract[1].ret
    /\ op = "_fallback_prediction" /\ first.score[1].args = args
          => ret = first.score[1].ret
    /\ vocabulary = InitialVocabulary
    /\ NothingLoaded

\* the first extraction repeated after other extractions and scorings
RepeatedAfterOthers ==
    /\ op = "extract_features"
    /\ first.extract[1].args = args
    /\ first.extract[1].calls >= 2
    /\ first.score # NoCall
    /\ first.score[1].calls >= 2

\* C9: constructing the generator with any integer seed sets the random
\* state from that seed, whatever the state was before, so that the noise
\* drawn afterwards is the same for the same seed.
SeedSetsRandomState ==
    op = "IndustryGradeATSGenerator" /\ args.seed.given
        => rng.py = Seeded(Abs(args.seed.value))

\* C10: the keys extract_features produces, feature_order, FEATURE_COLUMNS
\* and the generator's keys are the same 31 names in the same positions.
FieldOrderAgrees ==
    op = "extract_features" =>
        LET keys == Keys(FeatureItems(args.resume_text, args.job_description))
        IN  /\ Len(keys) = 31
            /\ Cardinality(DOMAIN ret) = 31
            /\ keys = feature_order
            /\ feature_order = FEATURE_COLUMNS
            /\ FEATURE_COLUMNS = GeneratorFeatureKeys

\* an extracted dictionary read by position through feature_order
FieldOrderRead ==
    /\ op = "extract_features"
    /\ args.resume_text # <<>>
    /\ \A i \in 1..Len(feature_order) : feature_order[i] \in DOMAIN ret
    /\ Len(_features_to_array(ret)) = 31

\* the sum as stated: five sub-terms, each capped at 100 before its weight
CappedWeightedSum(features) ==
    LET keyword_term ==
            RMin(Rat(100), Get(features, "keyword_match_score", Rat(50)))
        experience_term ==
            IMin(100, Get(features, "action_verb_count", 0) * 3
                    + Get(features, "quantifiable_metrics", 0) * 4
                    + IMin(Get(features, "years_of_experience", 0) * 8, 40))
        structure_term ==
            IMin(100, Get(features, "total_sections", 0) * 12
                    + (IF Get(features, "has_summary", FALSE) THEN 10 ELSE 0)
                    + (IF Get(features, "has_experience", FALSE) THEN 20 ELSE 0))
        skills_term == IMin(100, Get(features, "total_skills_mentioned", 0) * 8)
        format_term ==
            IMin(100, (IF Get(features, "appropriate_length", FALSE) THEN 50 ELSE 20)
                    + (IF Get(features, "consistent_formatting", FALSE) THEN 30 ELSE 10)
                    + (IF Get(features, "bullet_point_count", 0) > 5 THEN 20 ELSE 10))
    IN  RAdd(RMul(keyword_term, 30, 100),
             [num |-> experience_term * 25 + structure_term * 20
                      + skills_term * 15 + format_term * 10,
              den |-> 100])

\* C11: the rule-based overall score is the clamp to [0, 100] of the
\* weighted sum in which every sub-term, the keyword term included, is
\* capped at 100 before its weight is applied.
FallbackScoreIsCappedSum ==
    op = "_fallback_prediction" =>
        ret.overall_score
            = Round1(RMax(Rat(0), RMin(Rat(100), CappedWeightedSum(args.features))))

-----------------------------------------------------------------------------
(* The reference scorer of IndustryGradeATSGenerator, which labels the     *)
(* training rows.  Its float quantities are exact rationals in lowest      *)
(* terms.                                                                  *)

RECURSIVE GCD(_, _)
GCD(a, b) == IF b = 0 THEN a ELSE GCD(b, a % b)

Reduced(a) ==
    LET g == GCD(Abs(a.num), a.den)
    IN  [num |-> a.num \div g, den |-> a.den \div g]

RSum(a, b) == Reduced(RAdd(a, b))

RSub(a, b) == Reduced(RAdd(a, [num |-> -b.num, den |-> b.den]))

RTimes(a, p, q) == Reduced(RMul(a, p, q))

\* the variant whose third segment starts at 10
KeywordSegmentShifted(n, match_pct) ==
    CASE n = 1 -> RTimes(match_pct, 15, 100)
      [] n = 2 -> RSum([num |-> 9, den |-> 2], RTimes(RSub(match_pct, Rat(30)), 25, 100))
      [] n = 3 -> RSum(Rat(10), RTimes(RSub(match_pct, Rat(50)), 4, 10))
      [] n = 4 -> RSum([num |-> 35, den |-> 2], RTimes(RSub(match_pct, Rat(70)), 5, 10))
      [] n = 5 -> RSum(Rat(25), RTimes(RSub(match_pct, Rat(85)), 67, 100))

\* the return expression of the n-th branch of _nonlinear_keyword_score
KeywordSegment(n, match_pct) ==
    CASE n = 1 -> RTimes(match_pct, 15, 100)
      [] n = 2 -> RSum([num |-> 9, den |-> 2], RTimes(RSub(match_pct, Rat(30)), 25, 100))
      [] n = 3 -> RSum([num |-> 19, den |-> 2], RTimes(RSub(match_pct, Rat(50)), 4, 10))
      [] n = 4 -> RSum([num |-> 35, den |-> 2], RTimes(RSub(match_pct, Rat(70)), 5, 10))
      [] n = 5 -> RSum(Rat(25), RTimes(RSub(match_pct, Rat(85)), 67, 100))

_nonlinear_keyword_score(match_pct) ==
    IF RLt(match_pct, Rat(30)) THEN KeywordSegment(1, match_pct)
    ELSE IF RLt(match_pct, Rat(50)) THEN KeywordSegment(2, match_pct)
    ELSE IF RLt(match_pct, Rat(70)) THEN KeywordSegment(3, match_pct)
    ELSE IF RLt(match_pct, Rat(85)) THEN KeywordSegment(4, match_pct)
    ELSE KeywordSegment(5, match_pct)

\* exp_base before the job-hopping multiplier and the cap
ExperienceBase(years, num_jobs, metrics) ==
    LET by_years ==
            IF RLt(years, Rat(1)) THEN RTimes(years, 3, 1)
            ELSE IF RLt(years, Rat(3))
                THEN RSum(Rat(3), RTimes(RSub(years, Rat(1)), 3, 1))
            ELSE IF RLt(years, Rat(7))
                THEN RSum(Rat(9), RTimes(RSub(years, Rat(3)), 2, 1))
            ELSE IF RLt(years, Rat(12))
                THEN RSum(Rat(17), RSub(years, Rat(7)))
            ELSE RSum(Rat(22), RMin(Rat(3), RTimes(RSub(years, Rat(12)), 3, 10)))
        progression ==
            IF num_jobs >= 2 /\ num_jobs <= 5
                THEN RMin(Rat(3), Reduced([num |-> num_jobs * 8, den |-> 10]))
            ELSE IF num_jobs > 5 THEN Rat(3)
            ELSE Rat(0)
        achievements == RMin(Rat(4), Reduced([num |-> metrics * 4, den |-> 10]))
    IN  RSum(RSum(by_years, progression), achievements)

\* the variant that returns exp_base as it stands
ExperienceUncapped(years, num_jobs, metrics, job_hopping) ==
    LET exp_base == ExperienceBase(years, num_jobs, metrics)
    IN  IF job_hopping THEN RTimes(exp_base, 75, 100) ELSE exp_base

_nonlinear_experience_score(years, num_jobs, metrics, job_hopping) ==
    LET exp_base == ExperienceBase(years, num_jobs, metrics)
        penalised == IF job_hopping THEN RTimes(exp_base, 75, 100) ELSE exp_base
    IN  RMin(Rat(25), penalised)

\* the variant without the career-gap deduction
PenaltiesWithoutGaps(features) ==
    (IF ~features.has_email THEN 10 ELSE 0)
    + (IF ~features.has_phone THEN 5 ELSE 0)
    + (IF ~features.has_experience THEN 15 ELSE 0)
    + (IF ~features.has_education THEN 8 ELSE 0)
    + (IF ~features.has_skills THEN 10 ELSE 0)
    + (IF ~features.consistent_formatting THEN 3 ELSE 0)
    + (IF features.total_words < 250 THEN 5
       ELSE IF features.total_words > 1000 THEN 3 ELSE 0)
    + (IF ~features.has_job_titles THEN 5 ELSE 0)

_calculate_penalties(features) ==
    LET years == features.years_of_experience
        \* years / max(1, number_of_jobs)
        avg_tenure == [num |-> years.num,
                       den |-> years.den * IMax(1, features.number_of_jobs)]
    IN  (IF ~features.has_email THEN 10 ELSE 0)
        + (IF ~features.has_phone THEN 5 ELSE 0)
        + (IF ~features.has_experience THEN 15 ELSE 0)
        + (IF ~features.has_education THEN 8 ELSE 0)
        + (IF ~features.has_skills THEN 10 ELSE 0)
        + (IF RLt(Rat(5), years) /\ RLt(Rat(4), avg_tenure) THEN 3 ELSE 0)
        + (IF ~features.consistent_formatting THEN 3 ELSE 0)
        + (IF features.total_words < 250 THEN 5
           ELSE IF features.total_words > 1000 THEN 3 ELSE 0)
        + (IF ~features.has_job_titles THEN 5 ELSE 0)

\* the variant with two points a level
TwoPointsPerLevel(degree_level) ==
    IF degree_level \in 0..5 THEN 2 * degree_level ELSE 0

\* degree_scores.get(degree_level, 0)
degree_scores(degree_level) ==
    CASE degree_level = 1 -> 2
      [] degree_level = 2 -> 5
      [] degree_level = 3 -> 9
      [] degree_level = 4 -> 11
      [] degree_level = 5 -> 12
      [] OTHER -> 0

\* the locals of _calculate_ats_score before the noise is drawn
ScoreTerms(features) ==
    LET years == features.years_of_experience
        \* number_of_jobs > years / 1.5
        job_hopping ==
            /\ RLt(Rat(3), years)
            /\ RLt(RTimes(years, 2, 3), Rat(features.number_of_jobs))
        skills_base ==
            RSum(RSum(RMin(Rat(10), Reduced([num |-> features.total_skills_mentioned * 5,
                                             den |-> 10])),
                      RMin(Rat(5), Reduced([num |-> features.programming_languages * 12,
                                            den |-> 10]))),
                 RMin(Rat(3), Reduced([num |-> features.action_verb_count * 2,
                                       den |-> 10])))
        edu_base == degree_scores(features.degree_level)
        \* in tenths
        format_tenths ==
            (IF features.has_experience THEN 25 ELSE 0)
            + (IF features.has_education THEN 20 ELSE 0)
            + (IF features.has_skills THEN 25 ELSE 0)
            + (IF features.has_email THEN 10 ELSE 0)
            + (IF features.has_phone THEN 10 ELSE 0)
            + (IF features.consistent_formatting THEN 10 ELSE 0)
    IN  [keyword_score |-> _nonlinear_keyword_score(features.keyword_match_score),
         job_hopping   |-> job_hopping,
         exp_score     |-> _nonlinear_experience_score(years, features.number_of_jobs,
                               features.quantifiable_metrics, job_hopping),
         skills_score  |-> RMin(Rat(18), skills_base),
         edu_score     |-> IF features.has_gpa /\ features.degree_level >= 3
                              THEN Rat(IMin(12, edu_base + 1)) ELSE Rat(edu_base),
         format_score  |-> RMin(Rat(10), Reduced([num |-> format_tenths, den |-> 10])),
         penalty       |-> _calculate_penalties(features)]

\* the variant that returns final_score as computed
FinalScoreUnclamped(features, noise) ==
    LET t == ScoreTerms(features)
        raw_score == RSum(RSum(RSum(RSum(t.keyword_score, t.exp_score),
                                    t.skills_score), t.edu_score), t.format_score)
    IN  RSum(RSub(raw_score, Rat(t.penalty)), noise)

_calculate_ats_score(features, noise) ==
    LET t == ScoreTerms(features)
        raw_score == RSum(RSum(RSum(RSum(t.keyword_score, t.exp_score),
                                    t.skills_score), t.edu_score), t.format_score)
        final_score == RSum(RSub(raw_score, Rat(t.penalty)), noise)
    IN  Reduced(RMax(Rat(0), RMin(Rat(100), final_score)))

\* _calculate_ats_score(features), the noise being the value random.gauss
\* returns in the current random state
CalculateAtsScore(features, noise) ==
    /\ op' = "_calculate_ats_score"
    /\ args' = [features |-> features, noise |-> noise]
    /\ ret' = [final_score |-> _calculate_ats_score(features, noise),
               terms |-> ScoreTerms(features)]
    /\ rng' = [rng EXCEPT !.py.pos = @ + 1]
    /\ UNCHANGED <<service, vocabulary, first, calls>>

\* rows as generate_resume_features builds them for a poor, an average and
\* an excellent resume (the fields the reference scorer reads)
RowPresets ==
    {[keyword_match_score |-> [num |-> 183, den |-> 10],
     years_of_experience |-> [num |-> 1, den |-> 2], number_of_jobs |-> 1,
     quantifiable_metrics |-> 0, total_skills_mentioned |-> 3,
     programming_languages |-> 0, action_verb_count |-> 2, degree_level |-> 1,
     has_gpa |-> FALSE, has_experience |-> FALSE, has_education |-> FALSE,
     has_skills |-> FALSE, has_email |-> FALSE, has_phone |-> FALSE,
     consistent_formatting |-> FALSE, total_words |-> 180,
     has_job_titles |-> FALSE],
     [keyword_match_score |-> [num |-> 557, den |-> 10],
     years_of_experience |-> Rat(6), number_of_jobs |-> 5,
     quantifiable_metrics |-> 4, total_skills_mentioned |-> 10,
     programming_languages |-> 2, action_verb_count |-> 9, degree_level |-> 3,
     has_gpa |-> FALSE, has_experience |-> TRUE, has_education |-> TRUE,
     has_skills |-> TRUE, has_email |-> TRUE, has_phone |-> TRUE,
     consistent_formatting |-> TRUE, total_words |-> 520,
     has_job_titles |-> TRUE],
     [keyword_match_score |-> Rat(99),
     years_of_experience |-> Rat(10), number_of_jobs |-> 4,
     quantifiable_metrics |-> 10, total_skills_mentioned |-> 25,
     programming_languages |-> 5, action_verb_count |-> 20, degree_level |-> 5,
     has_gpa |-> TRUE, has_experience |-> TRUE, has_education |-> TRUE,
     has_skills |-> TRUE, has_email |-> TRUE, has_phone |-> TRUE,
     consistent_formatting |-> TRUE, total_words |-> 700,
     has_job_titles |-> TRUE]}

RowFieldValues ==
    "keyword_match_score" :> {[num |-> 299, den |-> 10], Rat(30), Rat(50),
                               [num |-> 849, den |-> 10], Rat(85)}
    @@ "years_of_experience" :> {Rat(2), [num |-> 31, den |-> 10], Rat(6),
                                  Rat(12), Rat(30)}
    @@ "number_of_jobs" :> {0, 1, 7, 9}
    @@ "quantifiable_metrics" :> {0, 10}
    @@ "total_skills_mentioned" :> {0, 30}
    @@ "programming_languages" :> {0, 6}
    @@ "action_verb_count" :> {0, 30}
    @@ "degree_level" :> {0, 2, 3, 4, 9}
    @@ "has_gpa" :> BOOLEAN
    @@ "has_experience" :> BOOLEAN
    @@ "has_education" :> BOOLEAN
    @@ "has_skills" :> BOOLEAN
    @@ "has_email" :> BOOLEAN
    @@ "has_phone" :> BOOLEAN
    @@ "consistent_formatting" :> BOOLEAN
    @@ "total_words" :> {249, 250, 1000, 1001}
    @@ "has_job_titles" :> BOOLEAN

\* the rows with up to k fields set to another value
RECURSIVE Rows(_)
Rows(k) ==
    IF k = 0 THEN RowPresets
    ELSE LET prev == Rows(k - 1)
         IN  prev
             \cup UNION {{Put(v, f, x) : v \in prev, x \in RowFieldValues[f]} :
                            f \in DOMAIN RowFieldValues}

\* values random.gauss(0, 2.5) can return
NoiseValues ==
    {Rat(-5), [num |-> -5, den |-> 2], Rat(0), [num |-> 13, den |-> 10], Rat(5)}

\* the reference scorer on one row and one noise value
InitReference ==
    /\ Idle
    /\ args \in {[features |-> v, noise |-> n] :
                    v \in Rows(MaxOverrides), n \in NoiseValues}

NextReference == op = "none" /\ CalculateAtsScore(args.features, args.noise)

SpecReference == InitReference /\ [][NextReference]_vars

\* C12: the reference scorer's final score is keyword + experience + skills
\* + education + format terms, minus the penalty, plus the noise, clamped to
\* [0, 100]; the label always lies in [0, 100].
FinalScoreIsClampedSum ==
    op = "_calculate_ats_score" =>
        LET t == ret.terms
            total == RSum(RSub(RSum(RSum(RSum(RSum(t.keyword_score, t.exp_score),
                                              t.skills_score), t.edu_score),
                                    t.format_score),
                               Rat(t.penalty)),
                          args.noise)
        IN  /\ REq(ret.final_score, RMax(Rat(0), RMin(Rat(100), total)))
            /\ RLe(Rat(0), ret.final_score)
            /\ RLe(ret.final_score, Rat(100))

\* both ends of the clamp act: a sum above 100 and a sum below 0
FinalScoreClampedAbove ==
    /\ op = "_calculate_ats_score"
    /\ RLt(Rat(100), FinalScoreUnclamped(args.features, args.noise))
    /\ REq(ret.final_score, Rat(100))

\* the deductions as stated, years/jobs > 4 read as years > 4 * jobs for a
\* positive number of jobs
StatedPenalty(f) ==
    (IF ~f.has_email THEN 10 ELSE 0)
    + (IF ~f.has_phone THEN 5 ELSE 0)
    + (IF ~f.has_experience THEN 15 ELSE 0)
    + (IF ~f.has_education THEN 8 ELSE 0)
    + (IF ~f.has_skills THEN 10 ELSE 0)
    + (IF /\ f.years_of_experience.num > 5 * f.years_of_experience.den
          /\ f.years_of_experience.num
                 > 4 * f.number_of_jobs * f.years_of_experience.den
          THEN 3 ELSE 0)
    + (IF ~f.consistent_formatting THEN 3 ELSE 0)
    + (IF f.total_words < 250 THEN 5 ELSE IF f.total_words > 1000 THEN 3 ELSE 0)
    + (IF ~f.has_job_titles THEN 5 ELSE 0)

JobHoppingMultiplier ==
    op = "_calculate_ats_score" =>
        LET f == args.features
            years == f.years_of_experience
            hopping == /\ years.num > 3 * years.den
                       /\ 3 * f.number_of_jobs * years.den > 2 * years.num
            flag_off == _nonlinear_experience_score(years, f.number_of_jobs,
                            f.quantifiable_metrics, FALSE)
        IN  IF hopping
                THEN REq(ret.terms.exp_score, RTimes(flag_off, 75, 100))
                ELSE REq(ret.terms.exp_score, flag_off)

TooBrief ==
    [category |-> "formatting", priority |-> "medium",
     suggestion |-> "Your resume is too brief. Add more details about your experience and achievements"]

TooLong ==
    [category |-> "formatting", priority |-> "medium",
     suggestion |-> "Your resume is too long. Focus on the most relevant and recent experience"]

Listed(suggestions) == {suggestions[i] : i \in DOMAIN suggestions}

\* C15: a vector with total_words below 300 gets the medium-priority
\* formatting suggestion 'too brief', one with total_words above 1000 gets
\* 'too long', and one with total_words in [300, 1000] gets neither.
LengthSuggestionByWordCount ==
    (op = "_fallback_prediction" /\ "total_words" \in DOMAIN args.features) =>
        LET total_words == args.features["total_words"]
            listed == Listed(ret.suggestions)
        IN  /\ total_words < 300 => TooBrief \in listed
            /\ total_words > 1000 => TooLong \in listed
            /\ (total_words >= 300 /\ total_words <= 1000)
                   => (TooBrief \notin listed /\ TooLong \notin listed)

MissingSections(features) ==
    {s \in {"experience", "education", "skills"} :
        ~Get(features, "has_" \o s, FALSE)}

\* the sections each message of the sections rule names
SectionsNamed(message) ==
    CASE message = "Add missing sections: professional summary" -> {"summary"}
      [] message = "Add missing sections: skills section" -> {"skills"}
      [] message = "Add missing sections: professional summary, skills section"
             -> {"summary", "skills"}
      [] OTHER -> {}

\* C16: a vector with at least one of the experience, education and skills
\* sections missing gets a medium-priority structure suggestion that names
\* every missing section.
MissingSectionsNamed ==
    (op = "_fallback_prediction" /\ MissingSections(args.features) # {}) =>
        \E i \in DOMAIN ret.suggestions :
            /\ ret.suggestions[i].category = "structure"
            /\ ret.suggestions[i].priority = "medium"
            /\ MissingSections(args.features)
                   \subseteq SectionsNamed(ret.suggestions[i].suggestion)

\* C17: with a non-empty set of important keywords the unclamped ratio is
\* (|matches| + |tech_matches|) / (|important_keywords| + |jd_tech|), each
\* technical match counting twice in the numerator; the score is that ratio
\* as a percentage, normalised to [10, 95].
TechMatchCountsTwice ==
    (/\ op = "_calculate_keyword_match"
     /\ args.job_description.given
     /\ ImportantKeywords(args.job_description.text) # {}) =>
        LET jd_tech == TechTermsIn(args.job_description.text)
            important_keywords == ImportantKeywords(args.job_description.text)
            resume_tech == TechTermsIn(args.resume_a)
            matches == important_keywords
                           \cap (ResumeWords(args.resume_a) \cup resume_tech)
            tech_matches == jd_tech \cap resume_tech
        IN  REq(ret.a,
                Normalize([num |-> 100 * (Cardinality(matches)
                                          + Cardinality(tech_matches)),
                           den |-> Cardinality(important_keywords)
                                   + Cardinality(jd_tech)]))

\* C18: with a model loaded, when the feature conversion, the scaler's
\* transform or the model's predict raises, predict_ats_score returns the
\* rule-based result (confidence 0.7, model_version 'fallback-1.0.0') and
\* raises nothing.
PredictorErrorsFallBack ==
    /\ (/\ op = "predict_ats_score"
        /\ model_loaded
        /\ args.outcome.kind \in {"transform_raises", "predict_raises"}) =>
           ret = _fallback_prediction(args.features)
    /\ (op = "predict_ats_score_none_value" /\ model_loaded) =>
           /\ "raises" \notin DOMAIN ret
           /\ ret.confidence = [num |-> 7, den |-> 10]
           /\ ret.model_version = "fallback-1.0.0"

-----------------------------------------------------------------------------
(* Concurrent calls.  app.py's handlers call the singleton extractor and   *)
(* the singleton service; a call is extract_features followed by           *)
(* predict_ats_score, taken here in three steps (the extraction, the read  *)
(* of model_loaded, the prediction) that interleave freely with the steps  *)
(* of the other calls.                                                     *)

MaxCallers == 2

\* the model files startup_event may find
StartupModelFiles ==
    {[kind |-> "missing"],
     [kind |-> "v2", model |-> "XGBRegressor", scaler |-> "StandardScaler",
      feature_columns |-> "FEATURE_COLUMNS", version |-> "2.0"],
     [kind |-> "v1", model |-> "Classifier", scaler_file |-> "missing"]}

ConcurrentRequests ==
    {[resume_text |-> SampleResume, job_description |-> None],
     [resume_text |-> SampleResume,
      job_description |-> Text(<<"python developer with docker">>)],
     [resume_text |-> <<"lorem*60", "2020 - 2015">>, job_description |-> None]}

ConcurrentOutcomes ==
    {[kind |-> "transform_raises"], [kind |-> "predict_raises"],
     [kind |-> "score", score |-> [num |-> 7326, den |-> 100], proba |-> "0.9"]}

Received(request) ==
    [request |-> request, pc |-> "received", features |-> <<>>,
     loaded |-> FALSE, outcome |-> <<>>, result |-> <<>>, overlapped |-> FALSE]

\* another call is between its first and its last step
OthersInFlight(c) ==
    \E d \in DOMAIN calls : d # c /\ calls[d].pc \in {"extracted", "checked"}

\* the variant in which extraction adds the resume's words to TECH_SKILLS
ExtractStepLearning(c) ==
    /\ calls[c].pc = "received"
    /\ calls' = [calls EXCEPT
                    ![c].features = extract_features(calls[c].request.resume_text,
                                                     calls[c].request.job_description),
                    ![c].pc = "extracted",
                    ![c].overlapped = @ \/ OthersInFlight(c)]
    /\ vocabulary' = [vocabulary EXCEPT
                         !.TECH_SKILLS = @ \cup ResumeWords(calls[c].request.resume_text)]
    /\ UNCHANGED <<service, rng, op, args, ret, first>>

\* feature_extractor.extract_features(resume_text, job_description)
ExtractStep(c) ==
    /\ calls[c].pc = "received"
    /\ calls' = [calls EXCEPT
                    ![c].features = extract_features(calls[c].request.resume_text,
                                                     calls[c].request.job_description),
                    ![c].pc = "extracted",
                    ![c].overlapped = @ \/ OthersInFlight(c)]
    /\ UNCHANGED <<service, vocabulary, rng, op, args, ret, first>>

\* predict_ats_score: if not self.model_loaded
CheckLoadedStep(c) ==
    /\ calls[c].pc = "extracted"
    /\ calls' = [calls EXCEPT ![c].loaded = model_loaded,
                              ![c].pc = "checked",
                              ![c].overlapped = @ \/ OthersInFlight(c)]
    /\ UNCHANGED <<service, vocabulary, rng, op, args, ret, first>>

\* predict_ats_score: the rule-based result, or the try block and its except
PredictStep(c, outcome) ==
    /\ calls[c].pc = "checked"
    /\ Possible(outcome)
    /\ calls' = [calls EXCEPT
                    ![c].outcome = outcome,
                    ![c].result = IF ~calls[c].loaded
                                  THEN _fallback_prediction(calls[c].features)
                                  ELSE ModelPrediction(calls[c].features, outcome),
                    ![c].pc = "done",
                    ![c].overlapped = @ \/ OthersInFlight(c)]
    /\ UNCHANGED <<service, vocabulary, rng, op, args, ret, first>>

\* requests received by a service that has not started yet
InitConcurrent ==
    /\ NothingLoaded
    /\ vocabulary = InitialVocabulary
    /\ rng = [py |-> Entropy(1), np |-> Entropy(1)]
    /\ op = "none"
    /\ args = <<>>
    /\ ret = <<>>
    /\ first = NoCalls
    /\ calls \in [1..MaxCallers -> {Received(r) : r \in ConcurrentRequests}]

NextConcurrent ==
    \/ /\ op = "none"
       /\ \A c \in DOMAIN calls : calls[c].pc = "received"
       /\ \E file \in StartupModelFiles : LoadModel(file)
    \/ \E c \in DOMAIN calls : op = "load_model" /\ ExtractStep(c)
    \/ \E c \in DOMAIN calls : CheckLoadedStep(c)
    \/ \E c \in DOMAIN calls, outcome \in ConcurrentOutcomes : PredictStep(c, outcome)

SpecConcurrent == InitConcurrent /\ [][NextConcurrent]_vars

\* C19: under any interleaving of two or more extract_features /
\* predict_ats_score calls on the shared extractor and service, each call
\* gets the features and the result it would get alone, and no call
\* changes the vocabulary the others read.
ConcurrentCallsIndependent ==
    calls # <<>> =>
        /\ vocabulary = InitialVocabulary
        /\ \A c \in DOMAIN calls :
              LET alone == extract_features(calls[c].request.resume_text,
                                            calls[c].request.job_description)
              IN  /\ calls[c].pc # "received" => calls[c].features = alone
                  /\ calls[c].pc = "done" =>
                        calls[c].result = predict_ats_score(alone, calls[c].outcome)

\* two calls with different requests, each finished after steps taken while
\* the other was in flight, a model being loaded
OverlappedCallsFinished ==
    /\ calls # <<>>
    /\ model_loaded
    /\ \A c \in DOMAIN calls : calls[c].pc = "done" /\ calls[c].overlapped
    /\ calls[1].request # calls[2].request
    /\ calls[1].result # calls[2].result

-----------------------------------------------------------------------------
(* The conversion of a feature dictionary for the predictor.               *)

\* MLService._features_to_array
FeaturesToArray(features) ==
    /\ op' = "_features_to_array"
    /\ args' = [features |-> features]
    /\ ret' = [feature_array |-> _features_to_array(features)]
    /\ UNCHANGED <<service, vocabulary, rng, first, calls>>

NextArray == op = "none" /\ FeaturesToArray(args.features)

SpecArray == InitScorer /\ [][NextArray]_vars

\* C20: the array has exactly 31 entries; a boolean field becomes 1.0 when
\* true and 0.0 when false, and a field missing from the dictionary
\* becomes 0.0.
BooleansAndMissingSerialized ==
    op = "_features_to_array" =>
        /\ Len(ret.feature_array) = 31
        /\ \A i \in 1..Len(feature_order) :
              LET name == feature_order[i]
              IN  /\ name \notin DOMAIN args.features
                        => ret.feature_array[i] = Rat(0)
                  /\ (name \in DOMAIN args.features /\ name \in BooleanFields)
                        => ret.feature_array[i]
                               = IF args.features[name] THEN Rat(1) ELSE Rat(0)

\* a dictionary with a true field, a false field and a missing field
MixedDictionarySerialized ==
    /\ op = "_features_to_array"
    /\ \E t, f \in BooleanFields \cap DOMAIN args.features :
          args.features[t] /\ ~args.features[f]
    /\ \E i \in 1..Len(feature_order) : feature_order[i] \notin DOMAIN args.features
    /\ \E i \in 1..Len(feature_order) : ret.feature_array[i] = Rat(1)

OfPriority(suggestions, p) == SelectSeq(suggestions, LAMBDA x : x.priority = p)

\* C21: within each priority tier the suggestions keep rule-evaluation
\* order (keywords, action verbs, metrics, length, sections, skills,
\* contact, bullets), and no suggestion that fired is dropped by the cut
\* to 8.
SuggestionsStableAndComplete ==
    op = "_fallback_prediction" =>
        LET fired == FiredSuggestions(args.features)
        IN  /\ Len(fired) <= 8
            /\ ret.suggestions = OfPriority(fired, "high")
                                 \o OfPriority(fired, "medium")
                                 \o OfPriority(fired, "low")

\* all eight rules fired: the contact suggestion, evaluated seventh, stands
\* fourth, after the three high-priority ones evaluated before it
ContactMovedBehindEarlierHighs ==
    /\ op = "_fallback_prediction"
    /\ Len(ret.suggestions) = 8
    /\ ret.suggestions[1].category = "keywords"
    /\ ret.suggestions[3].category = "experience"
    /\ ret.suggestions[4].category = "structure"
    /\ ret.suggestions[4].priority = "high"

-----------------------------------------------------------------------------
(* The keyword term of the reference scorer on its own, over the match     *)
(* percentages from 0 to 100 in equal steps.                               *)

StepsPerPercent == 2

MatchPercentages ==
    {Reduced([num |-> k, den |-> StepsPerPercent]) : k \in 0..(100 * StepsPerPercent)}

\* _nonlinear_keyword_score on two percentages
NonlinearKeywordScore(low, high) ==
    /\ op' = "_nonlinear_keyword_score"
    /\ args' = [low |-> low, high |-> high]
    /\ ret' = [low |-> _nonlinear_keyword_score(low),
               high |-> _nonlinear_keyword_score(high)]
    /\ UNCHANGED <<service, vocabulary, rng, first, calls>>

InitKeywordTerm ==
    /\ Idle
    /\ args \in {[low |-> p[1], high |-> p[2]] :
                    p \in {q \in MatchPercentages \X MatchPercentages :
                              RLe(q[1], q[2])}}

NextKeywordTerm == op = "none" /\ NonlinearKeywordScore(args.low, args.high)

SpecKeywordTerm == InitKeywordTerm /\ [][NextKeywordTerm]_vars

\* the segments that meet at a breakpoint: 0 when the percentage is none
SegmentEndingAt(match_pct) ==
    CASE REq(match_pct, Rat(30)) -> 1
      [] REq(match_pct, Rat(50)) -> 2
      [] REq(match_pct, Rat(70)) -> 3
      [] REq(match_pct, Rat(85)) -> 4
      [] OTHER -> 0

\* C22: the keyword term is continuous at 30, 50, 70 and 85 (the segment
\* ending there and the segment starting there give the same value, which
\* is the term) and non-decreasing over [0, 100].
KeywordTermContinuousMonotone ==
    op = "_nonlinear_keyword_score" =>
        /\ RLe(ret.low, ret.high)
        /\ LET n == SegmentEndingAt(args.high)
           IN  n # 0 =>
                  /\ REq(KeywordSegment(n, args.high), KeywordSegment(n + 1, args.high))
                  /\ REq(ret.high, KeywordSegment(n, args.high))

\* a pair straddling the breakpoint 50, the higher one on it
KeywordTermAcrossBreakpoint ==
    /\ op = "_nonlinear_keyword_score"
    /\ REq(args.high, Rat(50))
    /\ RLt(args.low, Rat(50)) /\ RLt(Rat(30), args.low)
    /\ RLt(ret.low, ret.high)

\* C23: for every match percentage in [0, 100] the keyword term is at most
\* 35 points.
KeywordTermAtMost35 ==
    op = "_nonlinear_keyword_score" => RLe(ret.high, Rat(35))

\* C24: with non-negative counts the experience term is at most 25, the
\* skills term at most 18 (skills capped at 10, programming languages at
\* 5, action verbs at 3) and the format term at most 10.
TermsWithinCaps ==
    op = "_calculate_ats_score" =>
        LET f == args.features
            t == ret.terms
        IN  /\ RLe(t.exp_score, Rat(25))
            /\ RLe(t.skills_score, Rat(18))
            /\ RLe(t.format_score, Rat(10))
            /\ REq(t.skills_score,
                   RSum(RSum(RMin(Rat(10), [num |-> f.total_skills_mentioned, den |-> 2]),
                             RMin(Rat(5), [num |-> f.programming_languages * 6, den |-> 5])),
                        RMin(Rat(3), [num |-> f.action_verb_count, den |-> 5])))

\* a row whose experience base exceeds 25 and whose three terms all stand
\* at their caps
TermsAtTheirCaps ==
    /\ op = "_calculate_ats_score"
    /\ LET f == args.features
       IN  RLt(Rat(25), ExperienceBase(f.years_of_experience, f.number_of_jobs,
                                       f.quantifiable_metrics))
    /\ REq(ret.terms.exp_score, Rat(25))
    /\ REq(ret.terms.skills_score, Rat(18))
    /\ REq(ret.terms.format_score, Rat(10))

StatedDegreePoints(degree_level) == <<0, 2, 5, 9, 11, 12>>[degree_level + 1]

\* C25: for degree levels 0..5 the education term is the lookup value 0, 2,
\* 5, 9, 11, 12, plus 1 only when has_gpa is true and the level is at least
\* 3, and never above 12; below level 3 has_gpa changes nothing.
EducationTermIsLookupPlusGpa ==
    (op = "_calculate_ats_score" /\ args.features.degree_level \in 0..5) =>
        LET f == args.features
            points == StatedDegreePoints(f.degree_level)
        IN  /\ RLe(ret.terms.edu_score, Rat(12))
            /\ IF f.has_gpa /\ f.degree_level >= 3
                   THEN REq(ret.terms.edu_score, Rat(IMin(12, points + 1)))
                   ELSE REq(ret.terms.edu_score, Rat(points))
            /\ f.degree_level < 3 =>
                   ScoreTerms(Put(f, "has_gpa", ~f.has_gpa)).edu_score
                       = ret.terms.edu_score

\* a row of level 4 with a GPA, whose term is the lookup value plus one
EducationWithGpaBonus ==
    /\ op = "_calculate_ats_score"
    /\ args.features.degree_level = 4
    /\ args.features.has_gpa
    /\ REq(ret.terms.edu_score, Rat(12))

\* C26: when the most recent load_model call returned False, a
\* predict_ats_score call that follows it uses the rule-based scorer and
\* reports model_version 'fallback-1.0.0' (stated for the call that comes
\* next after the failed load).
FallbackAfterFailedLoad ==
    [][(/\ op = "load_model"
        /\ ~ret.returns
        /\ op' = "predict_ats_score")
          => (/\ ret' = _fallback_prediction(args'.features)
              /\ ret'.model_version = "fallback-1.0.0")]_vars

\* C27: with a predictor loaded and a prediction that succeeds, the
\* overall_score lies in [0, 100] whatever scalar the predictor returns,
\* and the breakdown and the suggestions are those the rule-based path
\* computes from the same feature vector.
ModelScoreClampedSameBreakdown ==
    (/\ op = "predict_ats_score"
     /\ model_loaded
     /\ args.outcome.kind = "score") =>
        /\ ret.overall_score \in 0..1000
        /\ ret.overall_score = Round1(Clamp(0, 100, args.outcome.score))
        /\ ret.breakdown = _fallback_prediction(args.features).breakdown
        /\ ret.suggestions = _fallback_prediction(args.features).suggestions

\* a predictor that returned 140, reported as 100.0 under its own version
ModelScoreAbove100Clamped ==
    /\ op = "predict_ats_score"
    /\ model_loaded
    /\ args.outcome.kind = "score"
    /\ RLt(Rat(100), args.outcome.score)
    /\ ret.overall_score = 1000
    /\ ret.model_version # "fallback-1.0.0"
    /\ args.features = TestFeatures

-----------------------------------------------------------------------------
(* The extractor on texts of year phrases and on texts of section headers. *)

YearFragments ==
    {"5 years of experience", "5-7 years", "over 10 years", "2015-2020",
     "2020 - 2015", "2019-present"}

SectionFragments ==
    <<"summary", "professional experience:", "education", "high school",
      "skills: python, docker, sql", "projects", "certifications">>

\* the texts made of some of the section fragments, in their order
SectionTexts ==
    {SelectSeq(SectionFragments, LAMBDA f : f \in chosen) :
        chosen \in SUBSET {SectionFragments[i] : i \in DOMAIN SectionFragments}}

InitFields ==
    /\ Idle
    /\ args \in {[resume_text |-> t, job_description |-> None] :
                    t \in Texts(YearFragments, MaxLines) \cup SectionTexts}

NextFields ==
    op = "none" /\ ExtractFeatures(args.resume_text, args.job_description)

SpecFields == InitFields /\ [][NextFields]_vars

\* C28: years_of_experience is non-negative for every text: the maximum of
\* the candidates found ('N years' phrases, the upper bound of 'A-B years'
\* ranges, end year minus start year of each year range with present or
\* current taken as 2025), or 0 when there is none.
YearsOfExperienceNonNegative ==
    op = "extract_features" =>
        LET candidates == YearCandidates(args.resume_text)
        IN  /\ ret.years_of_experience >= 0
            /\ ret.years_of_experience
                   = IF candidates = {} THEN 0 ELSE SetMax(candidates)

SectionFlags == {"summary", "experience", "education", "skills", "projects",
                 "certifications"}

\* C29: total_sections is the number of the six has_<section> flags that
\* are true, and lies in 0..6.
TotalSectionsCountsFlags ==
    op = "extract_features" =>
        /\ ret.total_sections
               = Cardinality({s \in SectionFlags : ret["has_" \o s]})
        /\ ret.total_sections \in 0..6

\* all six sections found, one of them by two of its keywords
AllSixSectionsFound ==
    /\ op = "extract_features"
    /\ ret.total_sections = 6
    /\ KeywordFound(args.resume_text, "education")
    /\ KeywordFound(args.resume_text, "school")

\* C30: model_loaded is true only if model is not None, in every state
\* reached by load_model and predict_ats_score calls; it is false
\* initially (stated here on states; predict_ats_score leaving the five
\* fields unchanged is stated in PredictLeavesServiceUnchanged).
LoadedOnlyWithModel ==
    /\ model_loaded => model # "None"
    /\ op = "none" => ~model_loaded

\* predict_ats_score never changes model, scaler, feature_names,
\* model_loaded or model_version
PredictLeavesServiceUnchanged ==
    [][op' \in {"predict_ats_score", "predict_ats_score_from_text",
                "predict_ats_score_none_value"}
          => UNCHANGED service]_vars

====
